---------------------------- MODULE Spec2Model ----------------------------
(***************************************************************************)
(* A model of the FHIR resource viewer's data scripts:                     *)
(*   scripts/fetch_real_data.py        FHIRDataFetcher                     *)
(*   scripts/download_specs.py         FHIRSpecDownloader                  *)
(*   scripts/fetch_datatypes.py        FHIRDataTypeFetcher                 *)
(*   scripts/create_datatypes.py       FHIRDataTypeCreator                 *)
(*   scripts/update_datatypes_index.py update_indexes                      *)
(*                                                                         *)
(* Representation of Python values.                                        *)
(*   - a dict is a function from its keys; a key that is missing is        *)
(*     missing from DOMAIN, and d.get(k, default) is Get(d, k, default);   *)
(*   - a dict whose iteration order matters (the catalogs, byName) is a    *)
(*     record [order, data]: the keys in insertion order and the mapping;  *)
(*   - a dotted string (an element path) is the sequence of its segments,  *)
(*     what s.split('.') gives: '' is <<"">>, 'Patient' is <<"Patient">>,  *)
(*     'Patient.name' is <<"Patient", "name">>; a URL is, likewise, the    *)
(*     sequence s.split('/') gives;                                        *)
(*   - a JSON value that is not a mapping is a record [t |-> <its type>].  *)
(***************************************************************************)
EXTENDS Integers, Sequences, FiniteSets, TLC

(***************************************************************************)
(* Bounds of the model.                                                    *)
(***************************************************************************)
\* the longest list of names handed to one download call
MaxBatch == 2
\* the number of download calls made on one FHIRDataFetcher object
MaxCalls == 2
\* the largest value the totalResources counters are followed to
MaxTotal == 6
\* the longest raw element list drawn for the document processors
MaxElems == 3
\* the number of index scripts that run at the same time
MaxProcs == 2
\* the longest snapshot or differential list of a whole document
MaxDocElems == 2
\* the most slices of Patient.extension in the snapshot of a profile
MaxSlices == 51

\* how often one entry object is saved
MaxSaves == 2

(***************************************************************************)
(* Python built-ins.                                                       *)
(***************************************************************************)
Get(d, k, default) == IF k \in DOMAIN d THEN d[k] ELSE default

Last(s) == s[Len(s)]

Range(s) == {s[i] : i \in DOMAIN s}

\* the empty string, split
EmptyStr == <<"">>

\* bool(s) of a split string
Truthy(s) == s # EmptyStr

\* '.' in path
HasDot(path) == Len(path) >= 2

\* the empty dict
EmptyMap == [k \in {} |-> k]

\* an empty dict that remembers insertion order
EmptyDict == [order |-> <<>>, data |-> EmptyMap]

\* d[k] = v on a dict that remembers insertion order: a key already present
\* keeps its place
Put(d, k, v) ==
    [order |-> IF k \in DOMAIN d.data THEN d.order ELSE Append(d.order, k),
     data |-> (k :> v) @@ d.data]

\* len(d)
DictLen(d) == Len(d.order)

\* {**a, **b}: a's keys in a's order, then b's new keys; b's values win
RECURSIVE MergeDicts(_, _)
MergeDicts(a, b) ==
    IF b.order = <<>> THEN a
    ELSE MergeDicts(Put(a, Head(b.order), b.data[Head(b.order)]),
                    [order |-> Tail(b.order), data |-> b.data])

\* sum(f(x) for x in seq)
RECURSIVE SumSeq(_)
SumSeq(s) == IF s = <<>> THEN 0 ELSE Head(s) + SumSeq(Tail(s))

\* every name of the model, in the order Python's str comparison gives
\* (code points: upper case before lower case)
SortedNames ==
    <<"Meta", "Observation", "Patient", "Period", "USCoreObservationLab",
      "USCorePatient">>

NameRank(n) == CHOOSE i \in DOMAIN SortedNames : SortedNames[i] = n

RECURSIVE InsertSorted(_, _)
InsertSorted(s, n) ==
    IF s = <<>> THEN <<n>>
    ELSE IF NameRank(n) < NameRank(Head(s)) THEN <<n>> \o s
    ELSE <<Head(s)>> \o InsertSorted(Tail(s), n)

\* list.sort() of a list of names
RECURSIVE SortList(_)
SortList(s) ==
    IF s = <<>> THEN <<>> ELSE InsertSorted(SortList(Tail(s)), Head(s))

\* for x in new: if x not in lst: lst.append(x)
RECURSIVE AppendMissing(_, _)
AppendMissing(lst, new) ==
    IF new = <<>> THEN lst
    ELSE AppendMissing(IF Head(new) \in Range(lst) THEN lst
                       ELSE Append(lst, Head(new)), Tail(new))

\* every ordering of a finite set, as sequences without repetition
Orderings(S) ==
    {s \in [1..Cardinality(S) -> S] : \A i, j \in 1..Cardinality(S) :
                                          i # j => s[i] # s[j]}

\* the sequences over S of length at most n
SeqUpTo(S, n) == UNION {[1..k -> S] : k \in 0..n}


(***************************************************************************)
(* The document source: the raw StructureDefinition documents a fetch may  *)
(* return.  A raw element is a mapping with optional keys.                 *)
(***************************************************************************)
\* the root element of a type: its path has no '.'
ElRoot == [path |-> <<"Patient">>, min |-> 0, max |-> "*"]

ElId ==
    [path |-> <<"Patient", "id">>, min |-> 0, max |-> "1",
     mustSupport |-> FALSE, type |-> <<[code |-> "id"]>>]

ElName ==
    [path |-> <<"Patient", "name">>, min |-> 1, max |-> "*",
     mustSupport |-> TRUE, type |-> <<[code |-> "HumanName"]>>]

\* no min, no mustSupport; the field name "name" a second time
ElContactName ==
    [path |-> <<"Patient", "contact", "name">>, max |-> "*",
     type |-> <<[code |-> "HumanName"]>>]

\* an element of a resource document that carries mustSupport
ElValue ==
    [path |-> <<"Observation", "value">>, min |-> 0, max |-> "1",
     mustSupport |-> TRUE,
     type |-> <<[code |-> "Quantity"], [code |-> "string"]>>]

\* an element whose max is neither '*' nor a number
ElBadMax ==
    [path |-> <<"Patient", "photo">>, min |-> 0, max |-> "many",
     type |-> <<[code |-> "Attachment"]>>]

\* an element whose min is negative
ElBadMin ==
    [path |-> <<"Patient", "link">>, min |-> -1, max |-> "1",
     type |-> <<[code |-> "BackboneElement"]>>]

\* an element with two digits of min
ElTenNames ==
    [path |-> <<"Patient", "name">>, min |-> 10, max |-> "*",
     type |-> <<[code |-> "HumanName"]>>]

\* a slice of Patient.extension: the snapshot of a profile lists the path
\* once per slice
ElExtension ==
    [path |-> <<"Patient", "extension">>, min |-> 0, max |-> "*",
     mustSupport |-> TRUE, type |-> <<[code |-> "Extension"]>>]

\* an element without a path
ElNoPath == [min |-> 0, max |-> "1", mustSupport |-> TRUE]

\* an element list entry that is not a mapping: element.get raises
ElNotDict == [t |-> "str"]

RawElements ==
    {ElRoot, ElId, ElName, ElContactName, ElNoPath, ElBadMax, ElBadMin, ElTenNames}

DocA ==
    [resourceType |-> "StructureDefinition", name |-> "Patient",
     date |-> "2019-11-01", kind |-> "resource",
     baseDefinition |-> <<"http:", "", "hl7.org", "fhir",
                          "StructureDefinition", "Patient">>,
     snapshot |-> [t |-> "dict", element |-> <<ElRoot, ElId, ElName>>]]

\* no date, no baseDefinition
DocB ==
    [resourceType |-> "StructureDefinition", name |-> "Observation",
     kind |-> "resource",
     snapshot |-> [t |-> "dict",
                   element |-> <<ElNoPath, ElValue, ElContactName>>]]

\* a document whose snapshot is not a mapping: snapshot.get raises
DocBad ==
    [resourceType |-> "StructureDefinition", name |-> "Patient",
     snapshot |-> [t |-> "list"]]

\* the documents that process
GoodDocs == {DocA, DocB}

RawDocs == GoodDocs \cup {DocBad}

\* what fetch_json returns: None (after recording the error), a JSON value
\* that is falsy (an empty object), or a document
FetchResults ==
    {[t |-> "none"], [t |-> "falsy"]} \cup {[t |-> "doc", doc |-> d] : d \in RawDocs}

\* a call that returned None, and one that returned a value
None == [ok |-> FALSE]

Some(v) == [ok |-> TRUE, value |-> v]

(***************************************************************************)
(* FHIRDataFetcher: the document processors.                               *)
(***************************************************************************)
\* one type of the list: its code, then the last segment of each profile
type_code(type_def) ==
    <<Get(type_def, "code", "unknown")>> \o Get(type_def, "profile", <<>>)

\* 'unknown' for no type; else the types joined by ' | ', here the sequence
\* of what is joined
extract_element_types(type_list) ==
    IF type_list = <<>> THEN <<<<"unknown">>>>
    ELSE [i \in DOMAIN type_list |-> type_code(type_list[i])]

\* f"{min}..{max}"
\* the characters of a string that occurs as the max of a raw element
Chars(s) ==
    CASE s = "*" -> <<"*">>
      [] s = "0" -> <<"0">>
      [] s = "1" -> <<"1">>
      [] s = "many" -> <<"m", "a", "n", "y">>

DigitChars == <<"0", "1", "2", "3", "4", "5", "6", "7", "8", "9">>

\* a str that writes the last digit only
str_last_digit(n) == <<DigitChars[(n % Len(DigitChars)) + 1]>>

\* str(n) of an int
RECURSIVE str(_)
str(n) ==
    IF n < 0 THEN <<"-">> \o str(0 - n)
    ELSE IF n < Len(DigitChars) THEN <<DigitChars[n + 1]>>
    ELSE str(n \div Len(DigitChars)) \o <<DigitChars[(n % Len(DigitChars)) + 1]>>

\* f"{min}..{max}", as the characters of the string
cardinality(min, max) == str(min) \o <<".", ".">> \o Chars(max)

\* int(chars) of a string of digits
RECURSIVE int(_)
int(chars) ==
    IF chars = <<>> THEN 0
    ELSE int(SubSeq(chars, 1, Len(chars) - 1)) * Len(DigitChars)
         + (CHOOSE d \in 0..(Len(DigitChars) - 1) :
                DigitChars[d + 1] = chars[Len(chars)])

\* the reader of a cardinality string: the text before the first '..' is
\* the lower bound, the text after it the upper bound, '*' for unbounded
parse_cardinality(text) ==
    LET dots == {i \in 1..(Len(text) - 1) : text[i] = "." /\ text[i + 1] = "."}
        at == CHOOSE i \in dots : \A j \in dots : i <= j
        upper == SubSeq(text, at + 2, Len(text))
    IN  [lower |-> int(SubSeq(text, 1, at - 1)),
         upper |-> IF upper = <<"*">> THEN "unbounded" ELSE int(upper)]

\* a record that carries mustSupport whatever the kind of document
element_info_with_must_support(element, path, is_profile) ==
    [path |-> path,
     name |-> Last(path),
     min |-> Get(element, "min", 0),
     max |-> Get(element, "max", "1"),
     cardinality |-> cardinality(Get(element, "min", 0), Get(element, "max", "1")),
     type |-> extract_element_types(Get(element, "type", <<>>)),
     mustSupport |-> Get(element, "mustSupport", FALSE)]

element_info(element, path, is_profile) ==
    LET info == [path |-> path,
                 name |-> Last(path),
                 min |-> Get(element, "min", 0),
                 max |-> Get(element, "max", "1"),
                 cardinality |-> cardinality(Get(element, "min", 0),
                                             Get(element, "max", "1")),
                 type |-> extract_element_types(Get(element, "type", <<>>))]
    IN  IF is_profile
        THEN ("mustSupport" :> Get(element, "mustSupport", FALSE)) @@ info
        ELSE info

\* a processor that skips nothing but the elements without a path
process_elements_unfiltered(elements, is_profile) ==
    LET with_path == SelectSeq(elements, LAMBDA e : "path" \in DOMAIN e)
    IN  [i \in DOMAIN with_path |->
            element_info(with_path[i], with_path[i].path, is_profile)]

\* the root element and an element without a path are skipped
process_elements(elements, is_profile) ==
    LET skipped(element) ==
            LET path == Get(element, "path", EmptyStr)
            IN  ~Truthy(path) \/ ~HasDot(path)
        kept == SelectSeq(elements, LAMBDA element : ~skipped(element))
    IN  [i \in DOMAIN kept |->
            element_info(kept[i], Get(kept[i], "path", EmptyStr), is_profile)]

\* what makes the processing of a document raise: a snapshot that is no
\* mapping, an element that is no mapping
Raises(structure_def) ==
    LET snapshot == Get(structure_def, "snapshot", [t |-> "dict"])
    IN  \/ snapshot.t # "dict"
        \/ \E e \in Range(Get(snapshot, "element", <<>>)) : "t" \in DOMAIN e

SnapshotElements(structure_def) ==
    Get(Get(structure_def, "snapshot", [t |-> "dict"]), "element", <<>>)

calculate_element_stats(elements) ==
    [elementCount |-> Len(elements),
     requiredElements |->
         Len(SelectSeq(elements, LAMBDA e : Get(e, "min", 0) > 0)),
     optionalElements |->
         Len(SelectSeq(elements, LAMBDA e : Get(e, "min", 0) = 0))]

\* try: ... except Exception: return None
process_fhir_structure_definition(structure_def) ==
    IF Raises(structure_def) THEN None
    ELSE LET elements == process_elements(SnapshotElements(structure_def), FALSE)
         IN  Some([name |-> Get(structure_def, "name", ""),
                   type |-> "resource",
                   date |-> Get(structure_def, "date", ""),
                   kind |-> Get(structure_def, "kind", ""),
                   baseDefinition |->
                       Get(structure_def, "baseDefinition", EmptyStr),
                   elements |-> elements,
                   statistics |-> calculate_element_stats(elements)])

\* a count of the elements that carry the key, whatever its value
must_support_key_count(elements) ==
    Len(SelectSeq(elements, LAMBDA e : "mustSupport" \in DOMAIN e))

\* sum(1 for elem in elements if elem.get('mustSupport'))
must_support_count(elements) ==
    Len(SelectSeq(elements, LAMBDA e : Get(e, "mustSupport", FALSE)))

process_us_core_profile(profile_def) ==
    IF Raises(profile_def) THEN None
    ELSE LET elements == process_elements(SnapshotElements(profile_def), TRUE)
         IN  Some([name |-> Get(profile_def, "name", ""),
                   type |-> "profile",
                   date |-> Get(profile_def, "date", ""),
                   kind |-> Get(profile_def, "kind", ""),
                   baseDefinition |->
                       Get(profile_def, "baseDefinition", EmptyStr),
                   elements |-> elements,
                   statistics |-> calculate_element_stats(elements),
                   mustSupportCount |-> must_support_count(elements)])

\* us-core-patient becomes USCorePatient; a name that does not start with
\* us-core is returned as it is
clean_profile_name(profile_name) ==
    CASE profile_name = "us-core-patient" -> "USCorePatient"
      [] profile_name = "us-core-observation-lab" -> "USCoreObservationLab"
      [] OTHER -> profile_name

(***************************************************************************)
(* Serialization and hashing.  A JSON object to serialize is a record      *)
(* [keys, val]: its top-level keys in insertion order and its content.     *)
(* The serialized text is modelled by what decides its bytes: the          *)
(* indentation, the order the keys are written in and the content.         *)
(* SHA-256 is modelled as free of collisions: two digests are equal        *)
(* exactly when the hashed bytes are.                                      *)
(***************************************************************************)
\* the keys of the model, in the order Python's str comparison gives
SortedKeys ==
    <<"_metadata", "baseDefinition", "date", "elements", "kind",
      "mustSupportCount", "name", "statistics", "type">>

\* sorted(keys)
SortKeys(keys) == SelectSeq(SortedKeys, LAMBDA k : k \in Range(keys))

\* the key order of the dict literal of process_fhir_structure_definition
ResourceKeys ==
    <<"name", "type", "date", "kind", "baseDefinition", "elements",
      "statistics">>

\* ... and of process_us_core_profile, mustSupportCount set last
ProfileKeys == Append(ResourceKeys, "mustSupportCount")

\* ... and of the data type processors and creators
DataTypeKeys == <<"name", "kind", "type", "baseDefinition", "elements">>

\* the digits kept of the hex digest: hexdigest()[:16]
HexLen == 16

\* len("unknown")
UnknownLen == 7

\* json.dump(obj, indent=indent, sort_keys=sort_keys); an empty object is
\* written {} whatever the indentation
json_dump(obj, indent, sort_keys) ==
    [indent |-> IF obj.keys = <<>> THEN 0 ELSE indent,
     keys |-> IF sort_keys THEN SortKeys(obj.keys) ELSE obj.keys,
     val |-> obj.val]

\* hashlib.sha256(bytes).hexdigest()[:16]
sha256_16(bytes) == [len |-> HexLen, hex |-> bytes]

\* what save_resource_file writes: json.dump(data, f, indent=2)
save_resource_file(keys, data) ==
    json_dump([keys |-> keys, val |-> data], 2, FALSE)

\* file is None when the file cannot be read
calculate_file_hash(file) ==
    IF file.ok
    THEN [prefix |-> "sha256:", digest |-> sha256_16(file.value)]
    ELSE [prefix |-> "sha256:", digest |-> [len |-> UnknownLen, text |-> "unknown"]]

\* len() of a hash string of an index
HashLen(h) == Len(<<"s", "h", "a", "2", "5", "6", ":">>) + h.digest.len

\* the keys of a dict in insertion order, for a dict built as the data type
\* processors build it and saved any number of times
DataTypeKeyOrder(data) ==
    IF "_metadata" \in DOMAIN data THEN Append(DataTypeKeys, "_metadata")
    ELSE DataTypeKeys

\* hashlib.sha256(json.dumps(data, sort_keys=True).encode()).hexdigest()[:16]
\* of a dict with the given keys in insertion order
metadata_hash(keys, data) ==
    sha256_16(json_dump([keys |-> keys, val |-> data], 0, TRUE))

\* save_data_type: the metadata is computed from the dict as it is handed
\* in, then set on it; the dict with its metadata is what is written
save_data_type(data, downloaded) ==
    ("_metadata" :>
        [downloaded |-> downloaded,
         elementCount |-> Len(data.elements),
         hash |-> metadata_hash(DataTypeKeyOrder(data), data)])
    @@ data

(***************************************************************************)
(* FHIRDataTypeFetcher and FHIRDataTypeCreator.                            *)
(***************************************************************************)
DtRoot == [path |-> <<"Meta">>, min |-> 0, max |-> "*"]

DtVersionId ==
    [path |-> <<"Meta", "versionId">>, min |-> 0, max |-> "1",
     type |-> <<[code |-> "id"]>>]

DtLastUpdated ==
    [path |-> <<"Meta", "lastUpdated">>, min |-> 0, max |-> "1",
     type |-> <<[code |-> "instant"]>>]

\* a data type document with a differential and a snapshot
DtDocMeta ==
    [resourceType |-> "StructureDefinition", name |-> "Meta",
     kind |-> "complex-type", type |-> "Meta",
     baseDefinition |-> <<"http:", "", "hl7.org", "fhir",
                          "StructureDefinition", "Element">>,
     differential |-> [t |-> "dict", element |-> <<DtRoot, DtVersionId>>],
     snapshot |-> [t |-> "dict",
                   element |-> <<DtRoot, DtVersionId, DtLastUpdated>>]]

\* ... with a snapshot only
DtDocSnapshot ==
    [resourceType |-> "StructureDefinition", name |-> "Meta",
     kind |-> "complex-type", type |-> "Meta",
     snapshot |-> [t |-> "dict", element |-> <<DtRoot, DtLastUpdated>>]]

\* ... that is no StructureDefinition
DtDocOther == [resourceType |-> "OperationOutcome"]

\* ... with an element that is no mapping
DtDocBad ==
    [resourceType |-> "StructureDefinition", name |-> "Meta",
     snapshot |-> [t |-> "dict", element |-> <<DtRoot, ElNotDict>>]]

DtDocs == {DtDocMeta, DtDocSnapshot, DtDocOther, DtDocBad}

\* what FHIRDataTypeFetcher.fetch_json returns
DtFetchResults == {[t |-> "none"]} \cup {[t |-> "doc", doc |-> d] : d \in DtDocs}

\* ... a JSON value that is no object among them (a string, an array)
DtJsonResults == DtFetchResults \cup {[t |-> "json"]}

\* 'x' in structure_def and 'element' in structure_def['x']
HasElementList(structure_def, x) ==
    /\ x \in DOMAIN structure_def
    /\ structure_def[x].t = "dict"
    /\ "element" \in DOMAIN structure_def[x]

\* a reader that takes the snapshot first
DtElements_snapshot_first(structure_def) ==
    IF HasElementList(structure_def, "snapshot")
    THEN structure_def.snapshot.element
    ELSE IF HasElementList(structure_def, "differential")
    THEN structure_def.differential.element
    ELSE <<>>

\* the element list the data type processor reads
DtElements(structure_def) ==
    IF HasElementList(structure_def, "differential")
    THEN structure_def.differential.element
    ELSE IF HasElementList(structure_def, "snapshot")
    THEN structure_def.snapshot.element
    ELSE <<>>

\* the codes that are not empty joined by ' | ', or 'Element'
extract_element_type(element) ==
    IF Get(element, "type", <<>>) # <<>>
    THEN LET types == [i \in DOMAIN element.type |->
                          Get(element.type[i], "code", "")]
             codes == SelectSeq(types, LAMBDA code : code # "")
         IN  [i \in DOMAIN codes |-> <<codes[i]>>]
    ELSE <<<<"Element">>>>

\* every element of the list is kept
dt_element_data(element) ==
    [path |-> Get(element, "path", EmptyStr),
     name |-> IF Truthy(Get(element, "path", EmptyStr))
              THEN Last(element.path) ELSE "",
     cardinality |-> cardinality(Get(element, "min", 0), Get(element, "max", "*")),
     type |-> extract_element_type(element)]

dt_process_structure_definition(structure_def) ==
    LET elements == DtElements(structure_def)
    IN  IF \E e \in Range(elements) : "t" \in DOMAIN e THEN None
        ELSE Some([name |-> Get(structure_def, "name", ""),
                   kind |-> Get(structure_def, "kind", ""),
                   type |-> Get(structure_def, "type", ""),
                   baseDefinition |->
                       Get(structure_def, "baseDefinition", EmptyStr),
                   elements |->
                       [i \in DOMAIN elements |-> dt_element_data(elements[i])]])

\* FHIRDataTypeCreator.create_period_type
create_period_type ==
    [name |-> "Period", kind |-> "complex-type", type |-> "Period",
     baseDefinition |-> <<"http:", "", "hl7.org", "fhir",
                          "StructureDefinition", "Element">>,
     elements |->
        <<[path |-> <<"Period">>, name |-> "Period",
           cardinality |-> cardinality(0, "1"), type |-> <<<<"Element">>>>],
          [path |-> <<"Period", "start">>, name |-> "start",
           cardinality |-> cardinality(0, "1"), type |-> <<<<"dateTime">>>>],
          [path |-> <<"Period", "end">>, name |-> "end",
           cardinality |-> cardinality(0, "1"), type |-> <<<<"dateTime">>>>]>>]

(***************************************************************************)
(* FHIRDataFetcher: the index builders.  The catalogs fhir_resources and   *)
(* us_core_profiles are dicts in insertion order; the entry files are      *)
(* mappings from a name to the text written for it.                        *)
(***************************************************************************)
\* the file of a directory, None when there is none
ReadFile(files, name) ==
    IF name \in DOMAIN files THEN Some(files[name]) ELSE None

resource_record(name, data, files) ==
    [spec |-> "fhir-r4",
     type |-> "resource",
     file |-> <<"fhir-r4", "resources", name>>,
     hash |-> calculate_file_hash(ReadFile(files, name)),
     elementCount |-> Len(Get(data, "elements", <<>>)),
     lastModified |-> Get(data, "date", "")]

profile_record(name, data, files) ==
    [spec |-> "us-core-stu6.1",
     type |-> "profile",
     baseDefinition |-> Last(Get(data, "baseDefinition", EmptyStr)),
     file |-> <<"us-core-stu6.1", "profiles", name>>,
     hash |-> calculate_file_hash(ReadFile(files, name)),
     elementCount |-> Len(Get(data, "elements", <<>>)),
     mustSupportCount |-> Get(data, "mustSupportCount", 0),
     lastModified |-> Get(data, "date", "")]

\* for name, data in catalog.items(): byName[name] = {...}
RECURSIVE IndexByName(_, _, _, _, _)
IndexByName(byName, order, catalog, files, is_profile) ==
    IF order = <<>> THEN byName
    ELSE LET name == Head(order)
             data == catalog.data[name]
         IN  IndexByName(Put(byName, name,
                             IF is_profile THEN profile_record(name, data, files)
                             ELSE resource_record(name, data, files)),
                         Tail(order), catalog, files, is_profile)

\* sum(len(data.get('elements', [])) for data in {**fhir, **us}.values())
total_elements(fhir, us) ==
    LET all == MergeDicts(fhir, us)
    IN  SumSeq([i \in DOMAIN all.order |->
                   Len(Get(all.data[all.order[i]], "elements", <<>>))])

\* the lists are filled in the order the catalogs iterate
generate_resource_index(fhir, us, fhir_dir, us_core_dir) ==
    [byName |->
        IndexByName(IndexByName(EmptyDict, fhir.order, fhir, fhir_dir, FALSE),
                    us.order, us, us_core_dir, TRUE),
     bySpec |-> [k \in {"fhir-r4", "us-core-stu6.1"} |->
                    IF k = "fhir-r4" THEN fhir.order ELSE us.order],
     byType |-> [k \in {"resource", "profile"} |->
                    IF k = "resource" THEN fhir.order ELSE us.order],
     statistics |->
        [totalResources |-> DictLen(fhir) + DictLen(us),
         fhirResources |-> DictLen(fhir),
         usCoreProfiles |-> DictLen(us),
         totalElements |-> total_elements(fhir, us)]]

\* every element of every entry of {**fhir, **us}, in iteration order, with
\* the name and the entry it is an element of
RECURSIVE AllElements(_, _)
AllElements(all, order) ==
    IF order = <<>> THEN <<>>
    ELSE LET name == Head(order)
             elements == Get(all.data[name], "elements", <<>>)
         IN  [i \in DOMAIN elements |->
                 [resource_name |-> name,
                  resource_data |-> all.data[name],
                  element |-> elements[i]]]
             \o AllElements(all, Tail(order))

\* the loop body of generate_element_index, for one element
index_element(idx, item) ==
    LET element == item.element
        element_name == Get(element, "name", "")
        element_path == Get(element, "path", EmptyStr)
        element_type == Get(element, "type", <<<<"unknown">>>>)
        old == Get(idx.byName, element_name,
                   [resources |-> <<>>, frequency |-> 0, types |-> {},
                    commonPaths |-> <<>>])
        usage == Get(idx.dataTypeUsage, element_type,
                     [frequency |-> 0, elements |-> <<>>])
    IN  [byName |->
            IF element_name # ""
            THEN (element_name :>
                    [resources |-> Append(old.resources, item.resource_name),
                     frequency |-> old.frequency + 1,
                     types |-> old.types \cup {element_type},
                     commonPaths |-> Append(old.commonPaths, element_path)])
                 @@ idx.byName
            ELSE idx.byName,
         byPath |->
            IF Truthy(element_path)
            THEN (element_path :>
                    [cardinality |-> Get(element, "cardinality", cardinality(0, "1")),
                     type |-> element_type,
                     mustSupport |-> Get(element, "mustSupport", FALSE)])
                 @@ idx.byPath
            ELSE idx.byPath,
         mustSupportElements |->
            IF /\ Get(element, "mustSupport", FALSE)
               /\ Get(item.resource_data, "type", "") = "profile"
            THEN (item.resource_name :>
                    Append(Get(idx.mustSupportElements, item.resource_name, <<>>),
                           element_name))
                 @@ idx.mustSupportElements
            ELSE idx.mustSupportElements,
         dataTypeUsage |->
            IF element_type # <<<<"unknown">>>>
            THEN (element_type :>
                    [frequency |-> usage.frequency + 1,
                     elements |-> Append(usage.elements, element_path)])
                 @@ idx.dataTypeUsage
            ELSE idx.dataTypeUsage]

\* the loop over the elements: loop holds the index so far and the
\* elements still to come
RECURSIVE IndexLoop(_)
IndexLoop(loop) ==
    IF loop.items = <<>> THEN loop.idx
    ELSE IndexLoop([idx |-> index_element(loop.idx, Head(loop.items)),
                    items |-> Tail(loop.items)])

IndexElements(idx, items) == IndexLoop([idx |-> idx, items |-> items])

\* generate_search_terms: the curated table
term_mappings ==
    [patient |-> <<"Patient">>,
     demographics |-> <<"Patient">>,
     observation |-> <<"Observation">>,
     vital |-> <<"Observation">>,
     lab |-> <<"Observation">>,
     practitioner |-> <<"Practitioner">>,
     provider |-> <<"Practitioner">>,
     doctor |-> <<"Practitioner">>,
     organization |-> <<"Organization">>,
     facility |-> <<"Organization">>,
     medication |-> <<"Medication", "MedicationRequest">>,
     allergy |-> <<"AllergyIntolerance">>,
     condition |-> <<"Condition">>,
     diagnosis |-> <<"Condition">>,
     procedure |-> <<"Procedure">>,
     encounter |-> <<"Encounter">>,
     visit |-> <<"Encounter">>]

\* f"USCore{resource}"
us_core_name(resource) ==
    CASE resource = "Patient" -> "USCorePatient"
      [] resource = "Observation" -> "USCoreObservation"
      [] resource = "Practitioner" -> "USCorePractitioner"
      [] resource = "Organization" -> "USCoreOrganization"
      [] resource = "Medication" -> "USCoreMedication"
      [] resource = "MedicationRequest" -> "USCoreMedicationRequest"
      [] resource = "AllergyIntolerance" -> "USCoreAllergyIntolerance"
      [] resource = "Condition" -> "USCoreCondition"
      [] resource = "Procedure" -> "USCoreProcedure"
      [] resource = "Encounter" -> "USCoreEncounter"

\* for resource in resources: the US Core variant is appended when the
\* catalog has it
add_profile_variations(terms, resources, all_data) ==
    terms \o SelectSeq([i \in DOMAIN resources |-> us_core_name(resources[i])],
                       LAMBDA name : name \in DOMAIN all_data.data)

\* a table to which every variant is appended, in the catalog or not
generate_search_terms_every_variant(all_data) ==
    [term \in DOMAIN term_mappings |->
        term_mappings[term]
        \o [i \in DOMAIN term_mappings[term] |->
                us_core_name(term_mappings[term][i])]]

\* search_terms[term] = resources.copy(), then the variants
generate_search_terms(all_data) ==
    [term \in DOMAIN term_mappings |->
        add_profile_variations(term_mappings[term], term_mappings[term], all_data)]

generate_element_index(fhir, us) ==
    LET all_data == MergeDicts(fhir, us)
    IN  [searchTerms |-> generate_search_terms(all_data)]
        @@ IndexElements([byName |-> EmptyMap, byPath |-> EmptyMap,
                          mustSupportElements |-> EmptyMap,
                          dataTypeUsage |-> EmptyMap],
                         AllElements(all_data, all_data.order))

\* the wall clock of lastUpdated is left out
generate_master_index(fhir, us, stats) ==
    [specifications |->
        [k \in {"fhir-r4", "us-core-stu6.1"} |->
            IF k = "fhir-r4" THEN [resourceCount |-> DictLen(fhir)]
            ELSE [profileCount |-> DictLen(us)]],
     stats |->
        [totalResources |-> DictLen(fhir) + DictLen(us),
         totalElements |-> total_elements(fhir, us),
         fhirResourcesDownloaded |-> stats.fhir_resources_downloaded,
         usCoreProfilesDownloaded |-> stats.us_core_profiles_downloaded,
         errors |-> stats.errors]]

(***************************************************************************)
(* update_datatypes_index.py: update_indexes, on the indexes and the data  *)
(* type files as read.  order is the order glob() lists the files in.      *)
(***************************************************************************)
datatype_record(datatype_name, datatype_data) ==
    [spec |-> "fhir-r4",
     type |-> "datatype",
     file |-> <<"fhir-r4", "datatypes", datatype_name>>,
     hash |-> [prefix |-> "sha256:", digest |-> datatype_data._metadata.hash],
     elementCount |-> datatype_data._metadata.elementCount,
     kind |-> Get(datatype_data, "kind", "complex-type"),
     lastModified |-> "manual"]

\* a merge that keeps the record of a name byName already has
RECURSIVE AddDataTypes_keep_existing(_, _, _)
AddDataTypes_keep_existing(byName, order, files) ==
    IF order = <<>> THEN byName
    ELSE AddDataTypes_keep_existing(
             IF Head(order) \in DOMAIN byName.data THEN byName
             ELSE Put(byName, Head(order),
                      datatype_record(Head(order), files[Head(order)])),
             Tail(order), files)

\* for datatype_file in glob: byName[datatype_name] = {...}
RECURSIVE AddDataTypes(_, _, _)
AddDataTypes(byName, order, files) ==
    IF order = <<>> THEN byName
    ELSE AddDataTypes(Put(byName, Head(order),
                          datatype_record(Head(order), files[Head(order)])),
                      Tail(order), files)

\* a merge that writes the list anew from the data type names alone
merged_list_rewritten(lists, key, order) ==
    (key :> SortList(order)) @@ lists

\* list[key] with the names appended that it lacks, then sorted
merged_list(lists, key, order) ==
    (key :> SortList(AppendMissing(Get(lists, key, <<>>), order))) @@ lists

\* a KeyError: a file without _metadata, an index without its counter
update_indexes_raises(resources_index, master_index, files) ==
    \/ \E n \in DOMAIN files : "_metadata" \notin DOMAIN files[n]
    \/ "totalResources" \notin DOMAIN resources_index.statistics
    \/ "stats" \notin DOMAIN master_index
    \/ "totalResources" \notin DOMAIN Get(master_index, "stats", EmptyMap)

\* the statistics after the merge: the counter is added to, dataTypes set
merged_statistics(statistics, data_types_added) ==
    ("totalResources" :> statistics.totalResources + data_types_added)
    @@ ("dataTypes" :> data_types_added) @@ statistics

merged_master_stats(stats, data_types_added) ==
    ("totalResources" :> stats.totalResources + data_types_added)
    @@ ("dataTypesCreated" :> data_types_added) @@ stats

\* the two indexes update_indexes writes
update_indexes_result(resources_index, master_index, files, order) ==
    LET data_types_added == Len(order)
    IN  [resources |->
            [byName |-> AddDataTypes(resources_index.byName, order, files),
             bySpec |-> merged_list(resources_index.bySpec, "fhir-r4", order),
             byType |-> merged_list(resources_index.byType, "datatype", order),
             statistics |-> merged_statistics(resources_index.statistics,
                                              data_types_added)],
         master |->
            ("stats" :> merged_master_stats(master_index.stats, data_types_added))
            @@ master_index]

\* FHIRDataTypeFetcher.update_master_index, on master.json as read (None
\* when there is no such file): the master index it writes
dt_update_master_index(master_file, count) ==
    LET master_index == IF master_file.ok THEN master_file.value
                        ELSE [specifications |-> EmptyMap, stats |-> EmptyMap]
        fhir_r4 == Get(master_index.specifications, "fhir-r4", EmptyMap)
    IN  ("specifications" :>
            (("fhir-r4" :> (("dataTypes" :> [count |-> count]) @@ fhir_r4))
             @@ master_index.specifications))
        @@ ("stats" :>
            (("dataTypesDownloaded" :> count) @@ Get(master_index, "stats", EmptyMap)))
        @@ master_index

(***************************************************************************)
(* FHIRSpecDownloader.                                                     *)
(***************************************************************************)
\* what download_json gives: it raises, or returns the JSON value
SdFetchResults == {[t |-> "raise"]} \cup {[t |-> "doc", doc |-> d] : d \in RawDocs}

\* the codes joined by ' | ', or 'unknown'
get_element_type(element) ==
    LET types == Get(element, "type", <<>>)
    IN  IF types # <<>>
        THEN [i \in DOMAIN types |-> <<Get(types[i], "code", "unknown")>>]
        ELSE <<<<"unknown">>>>

sd_process_element(element) ==
    [name |-> Last(element.path),
     type |-> get_element_type(element),
     cardinality |-> cardinality(Get(element, "min", 0), Get(element, "max", "*")),
     path |-> element.path]

RECURSIVE sd_elements(_)
sd_elements(elements) ==
    IF elements = <<>> THEN <<>>
    ELSE LET element == Head(elements)
             path == Get(element, "path", EmptyStr)
         IN  IF Truthy(path) /\ HasDot(path)
             THEN <<sd_process_element(element)>> \o sd_elements(Tail(elements))
             ELSE sd_elements(Tail(elements))

\* no try here: an exception reaches the caller (None stands for it)
sd_process_structure_definition(structure_definition) ==
    IF Raises(structure_definition) THEN None
    ELSE Some([name |-> Get(structure_definition, "name", ""),
               type |-> "resource",
               kind |-> Get(structure_definition, "kind", ""),
               elements |-> sd_elements(SnapshotElements(structure_definition))])

create_fallback_resource(resource_name) ==
    [name |-> resource_name,
     type |-> "resource",
     kind |-> "resource",
     elements |-> <<[name |-> "id", type |-> <<<<"id">>>>,
                     cardinality |-> cardinality(0, "1"),
                     path |-> <<resource_name, "id">>]>>]

\* the body of the loop of download_fhir_resources, try and except
sd_download_item(fhir_data, resource_name, fetched) ==
    LET processed == IF fetched.t = "raise" THEN None
                     ELSE sd_process_structure_definition(fetched.doc)
    IN  IF processed.ok THEN (resource_name :> processed.value) @@ fhir_data
        ELSE (resource_name :> create_fallback_resource(resource_name)) @@ fhir_data

(***************************************************************************)
(* The state.                                                              *)
(***************************************************************************)
VARIABLES
    pc,                 \* the loop that is running, "idle" when none is
    batch,              \* the list of names the running loop goes through
    pos,                \* the place in batch of the next name, from 1
    results,            \* what the running loop reported for each name so far
    calls,              \* the download calls made on the FHIRDataFetcher
    fhir_resources,     \* FHIRDataFetcher.fhir_resources
    us_core_profiles,   \* FHIRDataFetcher.us_core_profiles
    stats,              \* FHIRDataFetcher.stats
    fhir_files,         \* data/fhir-r4/resources/<name>.json
    us_core_files,      \* data/us-core-stu6.1/profiles/<name>.json
    datatype_files,     \* data/fhir-r4/datatypes/<name>.json
    resources_json,     \* data/index/resources.json, None before it is written
    elements_json,      \* data/index/elements.json
    master_json,        \* data/index/master.json
    downloaded_types,   \* FHIRDataTypeFetcher.downloaded_types
    dt_errors,          \* FHIRDataTypeFetcher.errors
    sd_fhir_data,       \* fhir_data of FHIRSpecDownloader.download_fhir_resources
    sd_resources_file,  \* data/fhir-r4/resources.json
    raw,                \* the input of a function under study
    out,                \* its output
    procs               \* the scripts that run at the same time: for each,
                        \* where it is and what it has loaded

vars ==
    <<pc, batch, pos, results, calls, fhir_resources, us_core_profiles, stats,
      fhir_files, us_core_files, datatype_files, resources_json, elements_json,
      master_json, downloaded_types, dt_errors, sd_fhir_data,
      sd_resources_file, raw, out, procs>>

fetcher_vars == <<calls, fhir_resources, us_core_profiles, stats, fhir_files, us_core_files>>

index_vars == <<resources_json, elements_json, master_json>>

datatype_vars == <<datatype_files, downloaded_types, dt_errors>>

downloader_vars == <<sd_fhir_data, sd_resources_file>>

loop_vars == <<pc, batch, pos, results>>

study_vars == <<raw, out, procs>>

\* the names the callers hand to download_fhir_resources
ResourceNames == {"Patient", "Observation"}

\* ... and to download_us_core_profiles
ProfileNames == {"us-core-patient", "us-core-observation-lab"}

\* FHIRDataTypeFetcher.data_types
data_types == <<"Meta">>

\* FHIRSpecDownloader's core_resources
core_resources == <<"Patient", "Observation", "Practitioner">>

\* every variable but pc, raw and out, as it is when the objects are
\* constructed on an empty data directory
InitData ==
    /\ batch = <<>>
    /\ pos = 0
    /\ results = <<>>
    /\ calls = 0
    /\ fhir_resources = EmptyDict
    /\ us_core_profiles = EmptyDict
    /\ stats = [fhir_resources_downloaded |-> 0,
                us_core_profiles_downloaded |-> 0,
                errors |-> 0]
    /\ fhir_files = EmptyMap
    /\ us_core_files = EmptyMap
    /\ datatype_files = EmptyMap
    /\ resources_json = None
    /\ elements_json = None
    /\ master_json = None
    /\ downloaded_types = EmptyMap
    /\ dt_errors = 0
    /\ sd_fhir_data = EmptyMap
    /\ sd_resources_file = None
    /\ procs = EmptyMap

\* a FHIRDataFetcher is constructed ("idle"), or a FHIRSpecDownloader
\* ("sd_idle"): the two scripts share no file
Init ==
    /\ pc \in {"idle", "sd_idle"}
    /\ InitData
    /\ raw = None
    /\ out = None

\* a loop is entered with its list, or not at all when the list is empty
EnterLoop(name, names) ==
    /\ pc' = IF names = <<>> THEN "idle" ELSE name
    /\ batch' = IF names = <<>> THEN <<>> ELSE names
    /\ pos' = IF names = <<>> THEN 0 ELSE 1
    /\ results' = <<>>

\* a loop that a failure ends: the names after it are not gone through
AdvanceOrAbort(result) ==
    /\ pos' = IF result = "saved" THEN pos + 1 ELSE pos
    /\ results' = Append(results, result)
    /\ pc' = IF result # "saved" THEN "aborted"
             ELSE IF pos < Len(batch) THEN pc
             ELSE IF pc = "sd_download_fhir_resources" THEN "sd_idle"
             ELSE "idle"
    /\ batch' = batch

\* one name of the list is done with; the loop is left after the last one
Advance(result) ==
    /\ pos' = pos + 1
    /\ results' = Append(results, result)
    /\ pc' = IF pos < Len(batch) THEN pc
             ELSE IF pc = "sd_download_fhir_resources" THEN "sd_idle"
             ELSE "idle"
    /\ batch' = batch

(***************************************************************************)
(* FHIRDataFetcher: the download loops.                                    *)
(***************************************************************************)
\* a loop body that stores an entry without elements for a name that failed
download_fhir_item_placeholder(catalog, files, st, resource_name, fetched) ==
    LET processed == process_fhir_structure_definition(fetched.doc)
        saved == fetched.t = "doc" /\ processed.ok
        data == IF saved THEN processed.value
                ELSE [name |-> resource_name, type |-> "resource", elements |-> <<>>]
    IN  [catalog |-> Put(catalog, resource_name, data),
         files |-> IF saved
                   THEN (resource_name :> save_resource_file(ResourceKeys, data)) @@ files
                   ELSE files,
         stats |-> IF saved THEN [st EXCEPT !.fhir_resources_downloaded = @ + 1]
                   ELSE st,
         result |-> IF saved THEN "saved"
                    ELSE IF fetched.t = "doc" THEN "failed" ELSE "unavailable"]

\* the body of the loop of download_fhir_resources for one name
download_fhir_item(catalog, files, st, resource_name, fetched) ==
    LET unchanged == [catalog |-> catalog, files |-> files, stats |-> st]
        processed == process_fhir_structure_definition(fetched.doc)
    IN  IF fetched.t = "none"
        THEN [unchanged EXCEPT !.stats.errors = @ + 1]
             @@ [result |-> "unavailable"]
        ELSE IF fetched.t = "falsy"
        THEN unchanged @@ [result |-> "unavailable"]
        ELSE IF processed.ok
        THEN [catalog |-> Put(catalog, resource_name, processed.value),
              files |-> (resource_name :>
                            save_resource_file(ResourceKeys, processed.value))
                        @@ files,
              stats |-> [st EXCEPT !.fhir_resources_downloaded = @ + 1],
              result |-> "saved"]
        ELSE unchanged @@ [result |-> "failed"]

\* ... of download_us_core_profiles
download_us_core_item(catalog, files, st, profile_name, fetched) ==
    LET unchanged == [catalog |-> catalog, files |-> files, stats |-> st]
        processed == process_us_core_profile(fetched.doc)
        clean_name == clean_profile_name(profile_name)
    IN  IF fetched.t = "none"
        THEN [unchanged EXCEPT !.stats.errors = @ + 1]
             @@ [result |-> "unavailable"]
        ELSE IF fetched.t = "falsy"
        THEN unchanged @@ [result |-> "unavailable"]
        ELSE IF processed.ok
        THEN [catalog |-> Put(catalog, clean_name, processed.value),
              files |-> (clean_name :>
                            save_resource_file(ProfileKeys, processed.value))
                        @@ files,
              stats |-> [st EXCEPT !.us_core_profiles_downloaded = @ + 1],
              result |-> "saved"]
        ELSE unchanged @@ [result |-> "failed"]

download_fhir_resources ==
    /\ pc = "idle"
    /\ calls < MaxCalls
    /\ \E resource_names \in SeqUpTo(ResourceNames, MaxBatch) :
           EnterLoop("download_fhir_resources", resource_names)
    /\ calls' = calls + 1
    /\ UNCHANGED <<fhir_resources, us_core_profiles, stats, fhir_files, us_core_files>>
    /\ UNCHANGED <<index_vars, datatype_vars, downloader_vars, study_vars>>

DownloadFhirResource ==
    /\ pc = "download_fhir_resources"
    /\ \E fetched \in FetchResults :
           LET r == download_fhir_item(fhir_resources, fhir_files, stats,
                                       batch[pos], fetched)
           IN  /\ fhir_resources' = r.catalog
               /\ fhir_files' = r.files
               /\ stats' = r.stats
               /\ Advance(r.result)
    /\ UNCHANGED <<calls, us_core_profiles, us_core_files>>
    /\ UNCHANGED <<index_vars, datatype_vars, downloader_vars, study_vars>>

download_us_core_profiles ==
    /\ pc = "idle"
    /\ calls < MaxCalls
    /\ \E profile_names \in SeqUpTo(ProfileNames, MaxBatch) :
           EnterLoop("download_us_core_profiles", profile_names)
    /\ calls' = calls + 1
    /\ UNCHANGED <<fhir_resources, us_core_profiles, stats, fhir_files, us_core_files>>
    /\ UNCHANGED <<index_vars, datatype_vars, downloader_vars, study_vars>>

DownloadUsCoreProfile ==
    /\ pc = "download_us_core_profiles"
    /\ \E fetched \in FetchResults :
           LET r == download_us_core_item(us_core_profiles, us_core_files, stats,
                                          batch[pos], fetched)
           IN  /\ us_core_profiles' = r.catalog
               /\ us_core_files' = r.files
               /\ stats' = r.stats
               /\ Advance(r.result)
    /\ UNCHANGED <<calls, fhir_resources, fhir_files>>
    /\ UNCHANGED <<index_vars, datatype_vars, downloader_vars, study_vars>>

\* the three index files are written one after the other
generate_indexes ==
    /\ pc = "idle"
    /\ resources_json' = Some(generate_resource_index(
                                  fhir_resources, us_core_profiles,
                                  fhir_files, us_core_files))
    /\ elements_json' = Some(generate_element_index(fhir_resources, us_core_profiles))
    /\ master_json' = Some(generate_master_index(fhir_resources, us_core_profiles, stats))
    /\ UNCHANGED <<loop_vars, fetcher_vars, datatype_vars, downloader_vars, study_vars>>

(***************************************************************************)
(* update_datatypes_index.py.  Without resources.json or master.json the   *)
(* script ends in FileNotFoundError, and with a KeyError when              *)
(* update_indexes_raises: in both cases before it writes anything.         *)
(***************************************************************************)
update_indexes ==
    /\ pc = "idle"
    /\ resources_json.ok
    /\ master_json.ok
    /\ ~update_indexes_raises(resources_json.value, master_json.value, datatype_files)
    /\ \E order \in Orderings(DOMAIN datatype_files) :
           \E r \in {update_indexes_result(resources_json.value, master_json.value,
                                           datatype_files, order)} :
               /\ r.resources.statistics.totalResources <= MaxTotal
               /\ resources_json' = Some(r.resources)
               /\ master_json' = Some(r.master)
    /\ UNCHANGED <<elements_json, loop_vars, fetcher_vars, datatype_vars,
                   downloader_vars, study_vars>>

(***************************************************************************)
(* FHIRDataTypeCreator.run and FHIRDataTypeFetcher.run.                    *)
(***************************************************************************)
create_datatypes ==
    /\ pc = "idle"
    /\ datatype_files' =
           ("Period" :> save_data_type(create_period_type, FALSE)) @@ datatype_files
    /\ UNCHANGED <<downloaded_types, dt_errors, loop_vars, fetcher_vars,
                   index_vars, downloader_vars, study_vars>>

\* the first of the fetched documents that is a StructureDefinition and
\* processes, processed; None when there is none
RECURSIVE first_processed(_)
first_processed(fetched) ==
    IF fetched = <<>> THEN None
    ELSE LET data == Head(fetched)
             processed_data == dt_process_structure_definition(data.doc)
         IN  IF /\ data.t = "doc"
                /\ Get(data.doc, "resourceType", "") = "StructureDefinition"
                /\ processed_data.ok
             THEN processed_data
             ELSE first_processed(Tail(fetched))

\* data.get('resourceType') of a JSON value that is true but no object is
\* an AttributeError, which nothing catches: it is raised when such a value
\* comes before the first document that processes
get_raises(fetched) ==
    \E i \in DOMAIN fetched :
        /\ fetched[i].t = "json"
        /\ \A j \in 1..(i - 1) : ~first_processed(<<fetched[j]>>).ok

\* download_data_type, given what the URL patterns would return, in order
download_data_type(files, downloaded, errors, type_name, fetched) ==
    LET processed_data == first_processed(fetched)
        saved == save_data_type(processed_data.value, TRUE)
    IN  IF get_raises(fetched)
        THEN [files |-> files,
              downloaded_types |-> downloaded,
              errors |-> errors,
              result |-> "raised"]
        ELSE IF processed_data.ok
        THEN [files |-> (type_name :> saved) @@ files,
              downloaded_types |-> (type_name :> saved) @@ downloaded,
              errors |-> errors,
              result |-> "saved"]
        ELSE [files |-> files,
              downloaded_types |-> downloaded,
              errors |-> errors + 1,
              result |-> "failed"]

\* a new FHIRDataTypeFetcher starts its run
dt_run ==
    /\ pc = "idle"
    /\ EnterLoop("dt_run", data_types)
    /\ downloaded_types' = EmptyMap
    /\ dt_errors' = 0
    /\ UNCHANGED <<datatype_files, fetcher_vars, index_vars, downloader_vars, study_vars>>

\* the number of names the loop reported as saved
SuccessCount(res) == Len(SelectSeq(res, LAMBDA r : r = "saved"))

\* one data type of the run, given what fetch_json returns for the three
\* URLs; after the last one the master index is updated when a download
\* succeeded; an exception ends the run where it is
RunStep(fetched) ==
    \E r \in {download_data_type(datatype_files, downloaded_types, dt_errors,
                                 batch[pos], fetched)} :
        /\ datatype_files' = r.files
        /\ downloaded_types' = r.downloaded_types
        /\ dt_errors' = r.errors
        /\ IF r.result = "raised" THEN AdvanceOrAbort(r.result)
           ELSE Advance(r.result)
        /\ master_json' =
               IF /\ r.result # "raised"
                  /\ pos = Len(batch)
                  /\ SuccessCount(Append(results, r.result)) > 0
               THEN Some(dt_update_master_index(
                             master_json, Cardinality(DOMAIN r.downloaded_types)))
               ELSE master_json
        /\ UNCHANGED <<resources_json, elements_json, fetcher_vars,
                       downloader_vars, study_vars>>

\* ... when every URL gives nothing or a JSON object
DownloadDataType ==
    /\ pc = "dt_run"
    /\ \E fetched \in [1..3 -> DtFetchResults] : RunStep(fetched)

(***************************************************************************)
(* FHIRSpecDownloader.download_fhir_resources.                             *)
(***************************************************************************)
sd_download_fhir_resources ==
    /\ pc = "sd_idle"
    /\ EnterLoop("sd_download_fhir_resources", core_resources)
    /\ sd_fhir_data' = EmptyMap
    /\ UNCHANGED <<sd_resources_file, fetcher_vars, index_vars, datatype_vars, study_vars>>

\* one resource of the list; after the last one the data is saved
SdDownloadResource ==
    /\ pc = "sd_download_fhir_resources"
    /\ \E fetched \in SdFetchResults :
           LET fhir_data == sd_download_item(sd_fhir_data, batch[pos], fetched)
           IN  /\ sd_fhir_data' = fhir_data
               /\ sd_resources_file' =
                      IF pos = Len(batch) THEN Some(fhir_data) ELSE sd_resources_file
               /\ Advance(IF fetched.t = "doc" /\ ~Raises(fetched.doc)
                          THEN "saved" ELSE "fallback")
    /\ UNCHANGED <<fetcher_vars, index_vars, datatype_vars, study_vars>>

Next ==
    \/ download_fhir_resources
    \/ DownloadFhirResource
    \/ download_us_core_profiles
    \/ DownloadUsCoreProfile
    \/ generate_indexes
    \/ sd_download_fhir_resources
    \/ SdDownloadResource

\* FHIRDataFetcher's downloads and index generation; FHIRSpecDownloader
Spec == Init /\ [][Next]_vars

(***************************************************************************)
(* The indexes under merges: the data type scripts and update_indexes on   *)
(* the indexes of a FHIRDataFetcher that has done its downloads.           *)
(***************************************************************************)
\* download_fhir_resources then download_us_core_profiles, on the state
\* [catalog, files, stats] of a new FHIRDataFetcher; each list gives the names
\* with the document fetched for each
RECURSIVE downloads_done(_, _, _)
downloads_done(st, items, is_profile) ==
    IF items = <<>> THEN st
    ELSE LET name == Head(items)[1]
             fetched == [t |-> "doc", doc |-> Head(items)[2]]
             r == IF is_profile
                  THEN download_us_core_item(st.us, st.us_files, st.stats, name, fetched)
                  ELSE download_fhir_item(st.fhir, st.fhir_files, st.stats, name, fetched)
         IN  downloads_done(
                 IF is_profile
                 THEN [st EXCEPT !.us = r.catalog, !.us_files = r.files, !.stats = r.stats]
                 ELSE [st EXCEPT !.fhir = r.catalog, !.fhir_files = r.files, !.stats = r.stats],
                 Tail(items), is_profile)

\* the downloads the merges are studied after
MergeResourceLists == SeqUpTo({<<"Patient", DocA>>, <<"Observation", DocB>>}, MaxBatch)

MergeProfileLists == SeqUpTo({<<"us-core-patient", DocA>>, <<"us-core-observation-lab", DocB>>}, 1)

InitMerge ==
    /\ pc = "idle"
    /\ batch = <<>>
    /\ pos = 0
    /\ results = <<>>
    /\ calls = MaxCalls
    /\ \E resources \in MergeResourceLists, profiles \in MergeProfileLists :
           LET new == [fhir |-> EmptyDict, us |-> EmptyDict,
                       fhir_files |-> EmptyMap, us_files |-> EmptyMap,
                       stats |-> [fhir_resources_downloaded |-> 0,
                                  us_core_profiles_downloaded |-> 0,
                                  errors |-> 0]]
               st == downloads_done(downloads_done(new, resources, FALSE),
                                    profiles, TRUE)
           IN  /\ fhir_resources = st.fhir
               /\ us_core_profiles = st.us
               /\ fhir_files = st.fhir_files
               /\ us_core_files = st.us_files
               /\ stats = st.stats
    /\ datatype_files = EmptyMap
    /\ resources_json = None
    /\ elements_json = None
    /\ master_json = None
    /\ downloaded_types = EmptyMap
    /\ dt_errors = 0
    /\ sd_fhir_data = EmptyMap
    /\ sd_resources_file = None
    /\ raw = None
    /\ out = None
    /\ procs = EmptyMap

NextMerge ==
    \/ generate_indexes
    \/ update_indexes
    \/ create_datatypes
    \/ dt_run
    \/ DownloadDataType

SpecMerge == InitMerge /\ [][NextMerge]_vars

(***************************************************************************)
(* FHIRDataTypeFetcher.run alone, on a data directory without data types,  *)
(* for the first two names of its list, whatever JSON the URLs give.       *)
(***************************************************************************)
fetched_types == <<"Meta", "Period">>

InitFetch ==
    /\ pc = "idle"
    /\ InitData
    /\ raw = None
    /\ out = None

\* a new FHIRDataTypeFetcher starts its run
fetch_run ==
    /\ pc = "idle"
    /\ EnterLoop("dt_run", fetched_types)
    /\ downloaded_types' = EmptyMap
    /\ dt_errors' = 0
    /\ UNCHANGED <<datatype_files, fetcher_vars, index_vars, downloader_vars, study_vars>>

\* one data type of the run
FetchDataType ==
    /\ pc = "dt_run"
    /\ \E fetched \in [1..3 -> DtJsonResults] : RunStep(fetched)

NextFetch ==
    \/ fetch_run
    \/ FetchDataType

SpecFetch == InitFetch /\ [][NextFetch]_vars

\* a run that has a name left goes on to it
FairFetch == SpecFetch /\ WF_vars(FetchDataType)

\* the loops run on: a loop that has a name left does its next step
FairSpec ==
    /\ Spec
    /\ WF_vars(DownloadFhirResource)
    /\ WF_vars(DownloadUsCoreProfile)
    /\ WF_vars(SdDownloadResource)

(***************************************************************************)
(* The document processors as functions of the element list of a           *)
(* document: raw is the list, out what the processor last applied made of  *)
(* it.                                                                     *)
(***************************************************************************)
\* a StructureDefinition with the given element list
StudyDoc(elements) ==
    [resourceType |-> "StructureDefinition", name |-> "Patient",
     kind |-> "resource",
     snapshot |-> [t |-> "dict", element |-> elements]]

InitProc ==
    /\ pc = "process"
    /\ InitData
    /\ raw \in SeqUpTo(RawElements, MaxElems)
    /\ out = None

Processed(by, processed) ==
    /\ pc = "process"
    /\ out' = [ok |-> processed.ok, by |-> by,
               elements |-> IF processed.ok THEN processed.value.elements ELSE <<>>]
    /\ UNCHANGED <<raw, procs, loop_vars, fetcher_vars, index_vars,
                   datatype_vars, downloader_vars>>

ProcessFhirStructureDefinition ==
    Processed("process_fhir_structure_definition",
              process_fhir_structure_definition(StudyDoc(raw)))

ProcessUsCoreProfile ==
    Processed("process_us_core_profile", process_us_core_profile(StudyDoc(raw)))

SdProcessStructureDefinition ==
    Processed("FHIRSpecDownloader.process_structure_definition",
              sd_process_structure_definition(StudyDoc(raw)))

DtProcessStructureDefinition ==
    Processed("FHIRDataTypeFetcher.process_structure_definition",
              dt_process_structure_definition(StudyDoc(raw)))

NextProc ==
    \/ ProcessFhirStructureDefinition
    \/ ProcessUsCoreProfile
    \/ SdProcessStructureDefinition
    \/ DtProcessStructureDefinition

SpecProc == InitProc /\ [][NextProc]_vars

(***************************************************************************)
(* The two ways a hash gets into resources.json, as functions of an entry: *)
(* raw is the entry, a dict with its keys in insertion order; out holds    *)
(* the last two hashes computed for it.                                    *)
(***************************************************************************)
\* data type entries, as the creator and the fetcher make them
HashContents ==
    {create_period_type,
     dt_process_structure_definition(DtDocMeta).value,
     dt_process_structure_definition(DtDocSnapshot).value}

\* insertion orders of one set of keys: that of the data type processors,
\* that of a dict loaded from a sort_keys dump, that of the resource
\* processors
HashKeyOrders ==
    {DataTypeKeys, SortKeys(DataTypeKeys),
     <<"name", "type", "kind", "baseDefinition", "elements">>}

InitHash ==
    /\ pc = "hash"
    /\ InitData
    /\ raw \in {[keys |-> k, val |-> d] : k \in HashKeyOrders, d \in HashContents}
    /\ out = <<>>

Hashed(by, hash) ==
    /\ pc = "hash"
    /\ out' = (IF out = <<>> THEN <<>> ELSE <<Last(out)>>)
               \o <<[by |-> by, hash |-> hash]>>
    /\ UNCHANGED <<raw, procs, loop_vars, fetcher_vars, index_vars,
                   datatype_vars, downloader_vars>>

\* save_resource_file, then the hash generate_resource_index records
HashSavedFile ==
    Hashed("calculate_file_hash",
           calculate_file_hash(Some(save_resource_file(raw.keys, raw.val))))

\* ... when the file cannot be read
HashUnreadableFile ==
    Hashed("calculate_file_hash", calculate_file_hash(None))

\* save_data_type, then the hash update_indexes records
HashDataType ==
    Hashed("save_data_type",
           [prefix |-> "sha256:", digest |-> metadata_hash(raw.keys, raw.val)])

\* the same content in a dict built in another order
Reinsert ==
    /\ pc = "hash"
    /\ \E keys \in HashKeyOrders \ {raw.keys} : raw' = [raw EXCEPT !.keys = keys]
    /\ UNCHANGED <<out, procs, loop_vars, fetcher_vars, index_vars,
                   datatype_vars, downloader_vars>>

NextHash ==
    \/ HashSavedFile
    \/ HashUnreadableFile
    \/ HashDataType
    \/ Reinsert

SpecHash == InitHash /\ [][NextHash]_vars

(***************************************************************************)
(* The index scripts run at the same time, each in a process of its own.   *)
(* Nothing in the scripts locks a file, so the steps of a script are its   *)
(* reads and writes of the index files, and the steps of two scripts       *)
(* interleave freely.  A process may be stopped between any two steps.     *)
(***************************************************************************)
Procs == 1..MaxProcs

\* update_datatypes_index.py, FHIRDataTypeFetcher.update_master_index and
\* FHIRDataFetcher.generate_indexes
Scripts == {"update_indexes", "update_master_index", "generate_indexes"}

\* a process that has not started a script
NotStarted ==
    [script |-> "none", at |-> "idle", resources_index |-> None,
     master_index |-> None]

\* the first step of each script
FirstStep(script) ==
    CASE script = "update_indexes" -> "load_resources"
      [] script = "update_master_index" -> "load_master"
      [] script = "generate_indexes" -> "write_resources"

\* the downloads are done; the indexes are generated, or not yet; Period.json
\* has been created and Meta downloaded
InitConc ==
    /\ pc = "idle"
    /\ batch = <<>>
    /\ pos = 0
    /\ results = <<>>
    /\ calls = MaxCalls
    /\ \E resources \in MergeResourceLists, profiles \in MergeProfileLists,
          generated \in BOOLEAN :
           LET new == [fhir |-> EmptyDict, us |-> EmptyDict,
                       fhir_files |-> EmptyMap, us_files |-> EmptyMap,
                       stats |-> [fhir_resources_downloaded |-> 0,
                                  us_core_profiles_downloaded |-> 0,
                                  errors |-> 0]]
               st == downloads_done(downloads_done(new, resources, FALSE),
                                    profiles, TRUE)
           IN  /\ fhir_resources = st.fhir
               /\ us_core_profiles = st.us
               /\ fhir_files = st.fhir_files
               /\ us_core_files = st.us_files
               /\ stats = st.stats
               /\ resources_json =
                      IF generated
                      THEN Some(generate_resource_index(
                                    fhir_resources, us_core_profiles,
                                    fhir_files, us_core_files))
                      ELSE None
               /\ elements_json =
                      IF generated
                      THEN Some(generate_element_index(fhir_resources, us_core_profiles))
                      ELSE None
               /\ master_json =
                      IF generated
                      THEN Some(generate_master_index(fhir_resources, us_core_profiles,
                                                      stats))
                      ELSE None
    /\ datatype_files = ("Period" :> save_data_type(create_period_type, FALSE))
    /\ downloaded_types =
           ("Meta" :> save_data_type(
                          dt_process_structure_definition(DtDocMeta).value, TRUE))
    /\ dt_errors = 0
    /\ sd_fhir_data = EmptyMap
    /\ sd_resources_file = None
    /\ raw = None
    /\ out = None
    /\ procs = [p \in Procs |-> NotStarted]

\* what no step of a script changes
conc_fixed ==
    <<loop_vars, fetcher_vars, datatype_vars, downloader_vars, raw, out>>

\* a script is started in process p
Start(p) ==
    /\ procs[p].at = "idle"
    /\ \E script \in Scripts :
           procs' = [procs EXCEPT ![p].script = script,
                                  ![p].at = FirstStep(script)]
    /\ UNCHANGED <<index_vars, conc_fixed>>

\* update_indexes: json.load of resources.json, FileNotFoundError without it
LoadResources(p) ==
    /\ procs[p].at = "load_resources"
    /\ procs' = IF resources_json.ok
                THEN [procs EXCEPT ![p].resources_index = resources_json,
                                   ![p].at = "load_master"]
                ELSE [procs EXCEPT ![p].at = "failed"]
    /\ UNCHANGED <<index_vars, conc_fixed>>

\* update_indexes: json.load of master.json; update_master_index: the same
\* when the file exists
LoadMaster(p) ==
    /\ procs[p].at = "load_master"
    /\ procs' = IF procs[p].script = "update_indexes"
                THEN IF master_json.ok
                     THEN [procs EXCEPT ![p].master_index = master_json,
                                        ![p].at = "write_resources"]
                     ELSE [procs EXCEPT ![p].at = "failed"]
                ELSE [procs EXCEPT ![p].master_index = master_json,
                                   ![p].at = "write_master"]
    /\ UNCHANGED <<index_vars, conc_fixed>>

\* update_indexes: the indexes are updated in memory (a KeyError ends the
\* script) and resources.json is written; generate_indexes:
\* generate_resource_index
WriteResources(p) ==
    /\ procs[p].at = "write_resources"
    /\ IF procs[p].script = "generate_indexes"
       THEN /\ resources_json' =
                   Some(generate_resource_index(fhir_resources, us_core_profiles,
                                                fhir_files, us_core_files))
            /\ procs' = [procs EXCEPT ![p].at = "write_elements"]
       ELSE IF update_indexes_raises(procs[p].resources_index.value,
                                     procs[p].master_index.value, datatype_files)
       THEN /\ resources_json' = resources_json
            /\ procs' = [procs EXCEPT ![p].at = "failed"]
       ELSE /\ \E order \in Orderings(DOMAIN datatype_files) :
                   resources_json' =
                       Some(update_indexes_result(
                                procs[p].resources_index.value,
                                procs[p].master_index.value,
                                datatype_files, order).resources)
            /\ procs' = [procs EXCEPT ![p].at = "write_master"]
    /\ UNCHANGED <<elements_json, master_json, conc_fixed>>

\* generate_indexes: generate_element_index
WriteElements(p) ==
    /\ procs[p].at = "write_elements"
    /\ elements_json' = Some(generate_element_index(fhir_resources, us_core_profiles))
    /\ procs' = [procs EXCEPT ![p].at = "write_master"]
    /\ UNCHANGED <<resources_json, master_json, conc_fixed>>

\* the master index a script writes as its last step
master_written(p) ==
    CASE procs[p].script = "generate_indexes" ->
             generate_master_index(fhir_resources, us_core_profiles, stats)
      [] procs[p].script = "update_master_index" ->
             dt_update_master_index(procs[p].master_index,
                                    Cardinality(DOMAIN downloaded_types))
      [] procs[p].script = "update_indexes" ->
             update_indexes_result(procs[p].resources_index.value,
                                   procs[p].master_index.value, datatype_files,
                                   CHOOSE order \in Orderings(DOMAIN datatype_files) :
                                       TRUE).master

WriteMaster(p) ==
    /\ procs[p].at = "write_master"
    /\ master_json' = Some(master_written(p))
    /\ procs' = [procs EXCEPT ![p].at = "done"]
    /\ UNCHANGED <<resources_json, elements_json, conc_fixed>>

\* the process is stopped before its next step
Abort(p) ==
    /\ procs[p].at \notin {"idle", "done", "failed", "aborted"}
    /\ procs' = [procs EXCEPT ![p].at = "aborted"]
    /\ UNCHANGED <<index_vars, conc_fixed>>

NextConc ==
    \E p \in Procs :
        \/ Start(p)
        \/ LoadResources(p)
        \/ LoadMaster(p)
        \/ WriteResources(p)
        \/ WriteElements(p)
        \/ WriteMaster(p)
        \/ Abort(p)

SpecConc == InitConc /\ [][NextConc]_vars

(***************************************************************************)
(* The document processors as functions of a whole document: raw is the    *)
(* StructureDefinition, with or without a snapshot and a differential, out *)
(* the entry the processor last applied made of it.                        *)
(***************************************************************************)
\* a resource document is named after its type, a profile document is not
StudyNames == {"Patient", "USCorePatientProfile"}

\* the element lists of a snapshot or a differential
ElementLists == SeqUpTo({ElRoot, ElId, ElName}, MaxDocElems)

\* structure_def[key]['element'], when the list is there
ElementsUnder(key, list) ==
    IF list.ok THEN key :> [t |-> "dict", element |-> list.value] ELSE EmptyMap

StudyDocs ==
    {[resourceType |-> "StructureDefinition", name |-> name,
      type |-> "Patient", kind |-> "resource"]
     @@ ElementsUnder("snapshot", snapshot)
     @@ ElementsUnder("differential", differential) :
        name \in StudyNames,
        snapshot \in {None} \cup {Some(l) : l \in ElementLists},
        differential \in {None} \cup {Some(l) : l \in ElementLists}}

InitDoc ==
    /\ pc = "document"
    /\ InitData
    /\ raw \in StudyDocs
    /\ out = None

DocProcessed(by, processed) ==
    /\ pc = "document"
    /\ out' = [ok |-> processed.ok, by |-> by,
               name |-> IF processed.ok THEN processed.value.name ELSE "",
               elements |-> IF processed.ok THEN processed.value.elements ELSE <<>>]
    /\ UNCHANGED <<raw, procs, loop_vars, fetcher_vars, index_vars,
                   datatype_vars, downloader_vars>>

DocProcessFhirStructureDefinition ==
    DocProcessed("process_fhir_structure_definition",
                 process_fhir_structure_definition(raw))

DocProcessUsCoreProfile ==
    DocProcessed("process_us_core_profile", process_us_core_profile(raw))

DocSdProcessStructureDefinition ==
    DocProcessed("FHIRSpecDownloader.process_structure_definition",
                 sd_process_structure_definition(raw))

DocDtProcessStructureDefinition ==
    DocProcessed("FHIRDataTypeFetcher.process_structure_definition",
                 dt_process_structure_definition(raw))

NextDoc ==
    \/ DocProcessFhirStructureDefinition
    \/ DocProcessUsCoreProfile
    \/ DocSdProcessStructureDefinition
    \/ DocDtProcessStructureDefinition

SpecDoc == InitDoc /\ [][NextDoc]_vars

(***************************************************************************)
(* save_data_type on one entry object: raw is the dict in memory, which a  *)
(* save sets _metadata on; out is the list of the files written from it.   *)
(***************************************************************************)
\* the entries the creators make and the fetcher processes
SavedEntries ==
    {create_period_type}
    \cup {dt_process_structure_definition(doc).value :
             doc \in {d \in StudyDocs : dt_process_structure_definition(d).ok}}

InitSave ==
    /\ pc = "save"
    /\ InitData
    /\ raw \in SavedEntries
    /\ out = <<>>

\* data['_metadata'] = {...}, then json.dump(data, f)
Saved(downloaded) ==
    /\ pc = "save"
    /\ Len(out) < MaxSaves
    /\ raw' = save_data_type(raw, downloaded)
    /\ out' = Append(out, raw')
    /\ UNCHANGED <<procs, loop_vars, fetcher_vars, index_vars,
                   datatype_vars, downloader_vars>>

\* FHIRDataTypeCreator.save_data_type, AdditionalFHIRDataTypeCreator.save_data_type
CreatorSaveDataType == Saved(FALSE)

\* FHIRDataTypeFetcher.save_data_type
FetcherSaveDataType == Saved(TRUE)

NextSave ==
    \/ CreatorSaveDataType
    \/ FetcherSaveDataType

SpecSave == InitSave /\ [][NextSave]_vars

(***************************************************************************)
(* generate_element_index as a function of the catalogs: raw says what the *)
(* documents of Patient and of its profile list, out is the element index  *)
(* generated from the entries made of them.                                *)
(***************************************************************************)
\* the resource document, and the profile document with its slices
ElementsDoc(name, elements, slices) ==
    [resourceType |-> "StructureDefinition", name |-> name,
     type |-> "Patient", kind |-> "resource",
     snapshot |-> [t |-> "dict",
                   element |-> <<ElRoot>> \o elements
                               \o [i \in 1..slices |-> ElExtension]]]

\* self.fhir_resources after Patient was downloaded
ElementsFhir(r) ==
    Put(EmptyDict, "Patient",
        process_fhir_structure_definition(
            ElementsDoc("Patient", r.elements, 0)).value)

\* self.us_core_profiles after us-core-patient was downloaded, or not
ElementsUs(r) ==
    IF r.profile
    THEN Put(EmptyDict, clean_profile_name("us-core-patient"),
             process_us_core_profile(
                 ElementsDoc("USCorePatientProfile", r.elements, r.slices)).value)
    ELSE EmptyDict

InitElements ==
    /\ pc = "elements"
    /\ InitData
    /\ raw \in [elements : SeqUpTo({ElId, ElName, ElContactName}, MaxDocElems),
                 slices : 0..MaxSlices,
                 profile : BOOLEAN]
    /\ out = None

GenerateElementIndex ==
    /\ pc = "elements"
    /\ out' = Some(generate_element_index(ElementsFhir(raw), ElementsUs(raw)))
    /\ UNCHANGED <<raw, procs, loop_vars, fetcher_vars, index_vars,
                   datatype_vars, downloader_vars>>

NextElements == GenerateElementIndex

SpecElements == InitElements /\ [][NextElements]_vars

(***************************************************************************)
(* Properties of the catalogs and of the indexes.                          *)
(***************************************************************************)
\* C1: when a name of the list handed to download_fhir_resources was stored
\* earlier in the same call, the step for its second occurrence does not
\* overwrite the entry stored for it (last-write-wins is not applied).
C1_NoOverwriteInBatch ==
    [][\A i \in 1..Len(results) :
          (/\ pc = "download_fhir_resources"
           /\ batch[i] = batch[pos]
           /\ results[i] = "saved")
          => fhir_resources'.data[batch[pos]] = fhir_resources.data[batch[pos]]]_vars

\* the indexes update_indexes would write, run now on the files as they are
MergedAgain(order) ==
    update_indexes_result(resources_json.value, master_json.value,
                          datatype_files, order)

\* C2: a second run of update_indexes over the unchanged data type
\* directory leaves byName, bySpec, byType, the statistics of resources.json
\* and the stats of master.json as the first run wrote them.
C2_SecondMergeChangesNothing ==
    [][update_indexes =>
          \A order \in Orderings(DOMAIN datatype_files') :
              /\ MergedAgain(order)'.resources = resources_json'.value
              /\ MergedAgain(order)'.master.stats = master_json'.value.stats]_vars

\* the names of the lists of a mapping from a key to a list of names
ListedUnder(lists, key) == Range(Get(lists, key, <<>>))

\* C3: update_indexes only adds: every name of byName, of a list of bySpec
\* and of a list of byType before a run is in the same mapping or list
\* after it.
C3_MergeIsAdditive ==
    [][update_indexes =>
          LET before == resources_json.value
              after == resources_json'.value
          IN  /\ DOMAIN before.byName.data \subseteq DOMAIN after.byName.data
              /\ \A k \in DOMAIN before.bySpec :
                     ListedUnder(before.bySpec, k) \subseteq ListedUnder(after.bySpec, k)
              /\ \A k \in DOMAIN before.byType :
                     ListedUnder(before.byType, k) \subseteq ListedUnder(after.byType, k)]_vars

\* two merges have run on indexes that listed a resource and a profile: the
\* names of before and the data type names are all there
C3_Witness ==
    /\ resources_json.ok
    /\ Get(resources_json.value.statistics, "dataTypes", 0) = 2
    /\ {"Patient", "Observation", "USCorePatient", "Meta", "Period"}
           \subseteq DOMAIN resources_json.value.byName.data
    /\ {"Patient", "Observation", "Meta", "Period"}
           \subseteq ListedUnder(resources_json.value.bySpec, "fhir-r4")
    /\ ListedUnder(resources_json.value.byType, "resource") = {"Patient", "Observation"}
    /\ ListedUnder(resources_json.value.byType, "datatype") = {"Meta", "Period"}

\* C4: whenever resources.json and master.json both exist, the totalResources
\* of master.json is that of resources.json and is the number of names in
\* byName, and the totalElements of the two files are equal.
C4_CountsMatch ==
    (resources_json.ok /\ master_json.ok) =>
        LET statistics == resources_json.value.statistics
            master_stats == Get(master_json.value, "stats", EmptyMap)
        IN  /\ Get(master_stats, "totalResources", -1) = statistics.totalResources
            /\ statistics.totalResources = DictLen(resources_json.value.byName)
            /\ Get(master_stats, "totalElements", -1) = statistics.totalElements

\* C5: once the fetch or the processing of a name of a list has failed, the
\* loop of FHIRDataFetcher or of FHIRSpecDownloader that goes through the
\* list still comes to its end, with a result for every name of the list,
\* and the program is where it generates the indexes or saves the data.
C5_FailureIsEntryScoped ==
    (\E i \in 1..Len(results) : results[i] # "saved")
    ~> (/\ pc \in {"idle", "sd_idle"}
        /\ Len(results) = Len(batch))

\* a download call is over whose first name failed and whose second name
\* was stored after it
C5_Witness ==
    /\ pc = "idle"
    /\ Len(batch) = 2
    /\ Len(results) = 2
    /\ results[1] \in {"failed", "unavailable"}
    /\ results[2] = "saved"
    /\ batch[2] \in DOMAIN fhir_resources.data

\* the step of a loop that ends in the given set of results
StepWith(loop, outcomes) ==
    /\ pc = loop
    /\ results' # results
    /\ Last(results') \in outcomes

Paths(elements) ==
    [i \in DOMAIN elements |-> Get(elements[i], "path", EmptyStr)]

\* a path that is there and has a '.'
Dotted(path) == Truthy(path) /\ HasDot(path)

MustSupportPlaces(elements) ==
    {i \in DOMAIN elements : Get(elements[i], "mustSupport", FALSE) = TRUE}

\* C8: the mustSupportCount of every profile of the catalog is the number
\* of its elements whose mustSupport is true, and generate_indexes writes,
\* as mustSupportElements of the profile, the names of these elements in
\* the order of the document (no list for a profile that has none).
C8_MustSupport ==
    /\ [](\A name \in DOMAIN us_core_profiles.data :
              LET profile == us_core_profiles.data[name]
              IN  profile.mustSupportCount
                      = Cardinality(MustSupportPlaces(profile.elements)))
    /\ [][generate_indexes =>
             \A name \in DOMAIN us_core_profiles.data :
                 LET elements == us_core_profiles.data[name].elements
                     listed == Get(elements_json'.value.mustSupportElements,
                                   name, <<>>)
                 IN  /\ Len(listed) = Cardinality(MustSupportPlaces(elements))
                     /\ \A k \in DOMAIN listed :
                            \E i \in MustSupportPlaces(elements) :
                                /\ listed[k] = elements[i].name
                                /\ Cardinality({j \in MustSupportPlaces(elements) :
                                                    j < i}) = k - 1]_vars

\* the profile with Patient.id (not must-support) and Patient.name
\* (must-support) is in the catalog and in the index
C8_Witness ==
    /\ elements_json.ok
    /\ "USCorePatient" \in DOMAIN us_core_profiles.data
    /\ Paths(us_core_profiles.data["USCorePatient"].elements)
           = <<ElId.path, ElName.path>>
    /\ us_core_profiles.data["USCorePatient"].mustSupportCount = 1
    /\ Get(elements_json.value.mustSupportElements, "USCorePatient", <<>>)
           = <<"name">>

\* the catalog of resources with its entries inserted in another order
Reordered(catalog, order) == [order |-> order, data |-> catalog.data]

\* C9: generate_resource_index gives the same byName, bySpec, byType and
\* statistics for every order in which the entries of the catalog of
\* resources were inserted.
C9_OrderInsensitive ==
    \A order \in Orderings(DOMAIN fhir_resources.data) :
        generate_resource_index(Reordered(fhir_resources, order),
                                us_core_profiles, fhir_files, us_core_files)
            = generate_resource_index(fhir_resources, us_core_profiles,
                                      fhir_files, us_core_files)

\* C10: the hashes computed for one content are equal, whatever the order
\* its keys were inserted in and whichever of calculate_file_hash and
\* save_data_type computed them, and they have one length.
C10_OneHashPerContent ==
    \A i, j \in DOMAIN out :
        /\ out[i].hash = out[j].hash
        /\ HashLen(out[i].hash) = HashLen(out[j].hash)


\* the index files after one script has run alone on files
RunAlone(script, files, order) ==
    IF script = "update_master_index"
    THEN [files EXCEPT !.master =
              Some(dt_update_master_index(files.master,
                                          Cardinality(DOMAIN downloaded_types)))]
    ELSE LET r == update_indexes_result(files.resources.value, files.master.value,
                                        datatype_files, order)
         IN  [resources |-> Some(r.resources), master |-> Some(r.master)]

\* the index files after the processes of turns have run one after the other
RECURSIVE RunInTurn(_, _, _)
RunInTurn(files, turns, order) ==
    IF turns = <<>> THEN files
    ELSE RunInTurn(RunAlone(procs[turns[1]].script, files, order),
                   Tail(turns), order)

\* the index files the scripts started from: the scripts that merge add to
\* resources.json and never make it, and they leave what the generator put
\* into it in place
GeneratedFiles ==
    [resources |-> Some(generate_resource_index(fhir_resources, us_core_profiles,
                                                fhir_files, us_core_files)),
     master |-> Some(generate_master_index(fhir_resources, us_core_profiles, stats))]

BothMerged ==
    /\ \A p \in Procs :
           /\ procs[p].script \in {"update_indexes", "update_master_index"}
           /\ procs[p].at = "done"
    /\ resources_json.ok

\* C11: when two scripts that update the same index file (update_indexes
\* twice, or update_indexes and update_master_index) have run at the same
\* time, resources.json and master.json are what the two scripts leave when
\* one runs after the other, in one order or the other: no update is lost.
C11_UpdatesAreSerial ==
    BothMerged =>
        \E turns \in Orderings(Procs), order \in Orderings(DOMAIN datatype_files) :
            RunInTurn(GeneratedFiles, turns, order) =
                [resources |-> resources_json, master |-> master_json]

\* C12: when a single script has been stopped after any of its steps,
\* resources.json and master.json agree on totalResources, and every name of
\* byName has a persisted entry file.
C12_AbortLeavesIndexesConsistent ==
    (/\ \E p \in Procs : procs[p].at = "aborted"
     /\ \A p \in Procs : procs[p].at \in {"aborted", "idle"}
     /\ resources_json.ok
     /\ master_json.ok)
    => /\ resources_json.value.statistics.totalResources =
              master_json.value.stats.totalResources
       /\ \A name \in DOMAIN resources_json.value.byName.data :
              name \in DOMAIN fhir_files \cup DOMAIN us_core_files
                       \cup DOMAIN datatype_files

\* C13: a master index is on disk only when statistics.totalElements of the
\* resource index is the number of element paths of byPath of the element
\* index.
C13_MasterOnlyWhenElementCountsAgree ==
    master_json.ok =>
        resources_json.value.statistics.totalElements =
            Cardinality(DOMAIN elements_json.value.byPath)


\* C14: the path of every element of an entry FHIRDataFetcher makes, of a
\* resource or of a profile, begins with the name of the entry followed by
\* a '.'.
C14_PathsBeginWithEntryName ==
    (out.ok /\ out.by \in {"process_fhir_structure_definition",
                           "process_us_core_profile"})
    => \A i \in DOMAIN out.elements :
           /\ HasDot(out.elements[i].path)
           /\ out.elements[i].path[1] = out.name


\* the element records of the profiles that are must-support and have the
\* path
MustSupportInProfile(path) ==
    \E name \in DOMAIN us_core_profiles.data :
        \E e \in Range(us_core_profiles.data[name].elements) :
            e.path = path /\ Get(e, "mustSupport", FALSE) = TRUE

\* C15: must-support is aggregated from profiles only: no element record of
\* a resource entry carries mustSupport, and generate_indexes writes no
\* resource name as a key of mustSupportElements and no mustSupport = true
\* in byPath that does not come from an element of a profile.
C15_MustSupportOnlyFromProfiles ==
    /\ [](\A name \in DOMAIN fhir_resources.data :
              \A e \in Range(fhir_resources.data[name].elements) :
                  "mustSupport" \notin DOMAIN e)
    /\ [][generate_indexes =>
             LET index == elements_json'.value
             IN  /\ DOMAIN index.mustSupportElements
                        \cap DOMAIN fhir_resources.data = {}
                 /\ DOMAIN index.mustSupportElements
                        \subseteq DOMAIN us_core_profiles.data
                 /\ \A path \in DOMAIN index.byPath :
                        index.byPath[path].mustSupport = TRUE
                            => MustSupportInProfile(path)]_vars

\* the indexes have been generated from a resource whose document marks
\* Observation.value as must-support, and from a profile with a
\* must-support element: the resource is no key of mustSupportElements and
\* Observation.value is not must-support in byPath
C15_Witness ==
    /\ elements_json.ok
    /\ "Observation" \in DOMAIN fhir_resources.data
    /\ \E e \in Range(fhir_resources.data["Observation"].elements) :
           e.path = ElValue.path
    /\ ElValue.mustSupport = TRUE
    /\ ElValue.path \in DOMAIN elements_json.value.byPath
    /\ elements_json.value.byPath[ElValue.path].mustSupport = FALSE
    /\ "Observation" \notin DOMAIN elements_json.value.mustSupportElements
    /\ DOMAIN elements_json.value.mustSupportElements # {}


\* a list of names in ascending order with no name twice
SortedNoRepeat(list) ==
    \A i, j \in DOMAIN list : i < j => NameRank(list[i]) < NameRank(list[j])

\* C16: in resources.json, as generate_resource_index and as update_indexes
\* write it, every list of bySpec and every list of byType is sorted and
\* has each name at most once.
C16_ListsSortedNoRepeat ==
    resources_json.ok =>
        /\ \A spec \in DOMAIN resources_json.value.bySpec :
               SortedNoRepeat(resources_json.value.bySpec[spec])
        /\ \A type \in DOMAIN resources_json.value.byType :
               SortedNoRepeat(resources_json.value.byType[type])


\* the dict of an entry file embeds elementCount and a content hash, and
\* elementCount is the number of its elements
EmbedsMetadata(data) ==
    /\ "_metadata" \in DOMAIN data
    /\ {"elementCount", "hash"} \subseteq DOMAIN data._metadata
    /\ data._metadata.elementCount = Len(data.elements)

\* C17: every entry file on disk, written by save_resource_file or by a
\* save_data_type, embeds elementCount and a content hash, with
\* elementCount the number of elements of the entry.
C17_EntryFilesEmbedMetadata ==
    /\ \A name \in DOMAIN fhir_files : EmbedsMetadata(fhir_files[name].val)
    /\ \A name \in DOMAIN us_core_files : EmbedsMetadata(us_core_files[name].val)
    /\ \A name \in DOMAIN datatype_files : EmbedsMetadata(datatype_files[name])


\* a string of digits
IsCount(chars) ==
    chars # <<>> /\ \A i \in DOMAIN chars : chars[i] \in Range(DigitChars)

\* a raw element whose max is neither '*' nor a non-negative integer, or
\* whose min is not a non-negative integer
Malformed(element) ==
    \/ "max" \in DOMAIN element /\ element.max # "*" /\ ~IsCount(Chars(element.max))
    \/ "min" \in DOMAIN element /\ element.min \notin Nat

\* C18: a raw element with a malformed cardinality is skipped and the
\* others are kept: the elements of the entry FHIRDataFetcher or
\* FHIRSpecDownloader makes are those of the raw elements with a '.' in
\* their path whose cardinality is well-formed.
C18_MalformedCardinalitySkipped ==
    (out.ok /\ out.by # "FHIRDataTypeFetcher.process_structure_definition")
    => Paths(out.elements) =
           SelectSeq(Paths(SelectSeq(raw, LAMBDA e : ~Malformed(e))), Dotted)


\* the raw elements a processor keeps, in order
Kept(by, elements) ==
    IF by = "FHIRDataTypeFetcher.process_structure_definition" THEN elements
    ELSE SelectSeq(elements, LAMBDA e : Dotted(Get(e, "path", EmptyStr)))

\* C19: for a raw element with a well-formed cardinality and max = '*',
\* the cardinality of its element record reads as lower bound the raw min
\* (0 when there is none) and as upper bound unbounded, and writing these
\* bounds as "min..*" and reading them again gives the same bounds.
C19_UnboundedRoundTrip ==
    out.ok =>
        \A i \in DOMAIN out.elements :
            LET element == Kept(out.by, raw)[i]
                bounds == parse_cardinality(out.elements[i].cardinality)
            IN  (~Malformed(element) /\ Get(element, "max", "") = "*")
                => /\ bounds = [lower |-> Get(element, "min", 0),
                                upper |-> "unbounded"]
                   /\ parse_cardinality(cardinality(bounds.lower, "*")) = bounds

\* an element without min and one with min 10, both with max '*', have
\* been processed by FHIRDataFetcher: the records read 0..* and 10..*
C19_Witness ==
    /\ out.ok
    /\ out.by = "process_fhir_structure_definition"
    /\ raw = <<ElContactName, ElTenNames>>
    /\ "min" \notin DOMAIN ElContactName
    /\ parse_cardinality(out.elements[1].cardinality) =
           [lower |-> 0, upper |-> "unbounded"]
    /\ parse_cardinality(out.elements[2].cardinality) =
           [lower |-> ElTenNames.min, upper |-> "unbounded"]


\* the element list of the document under key, empty without one
ListUnder(structure_def, key) ==
    IF key \in DOMAIN structure_def THEN structure_def[key].element ELSE <<>>

\* C20, as the code has it: FHIRDataFetcher's processors and
\* FHIRSpecDownloader.process_structure_definition take the elements from
\* the snapshot and never from the differential (no snapshot, no elements);
\* FHIRDataTypeFetcher.process_structure_definition takes them from the
\* differential when there is one, and from the snapshot only without it.
C20_SnapshotButForDataTypes ==
    out.ok =>
        IF out.by = "FHIRDataTypeFetcher.process_structure_definition"
        THEN Paths(out.elements) =
                 Paths(IF "differential" \in DOMAIN raw
                       THEN ListUnder(raw, "differential")
                       ELSE ListUnder(raw, "snapshot"))
        ELSE Paths(out.elements) =
                 SelectSeq(Paths(ListUnder(raw, "snapshot")), Dotted)

\* a document with the snapshot Patient.id, Patient.name and the
\* differential Patient.name has been processed by FHIRDataTypeFetcher:
\* the entry has Patient.name alone
C20_Witness ==
    /\ out.ok
    /\ out.by = "FHIRDataTypeFetcher.process_structure_definition"
    /\ "snapshot" \in DOMAIN raw
    /\ "differential" \in DOMAIN raw
    /\ raw.snapshot.element = <<ElId, ElName>>
    /\ raw.differential.element = <<ElName>>
    /\ Paths(out.elements) = <<ElName.path>>

\* C20, as stated: whatever the processor, the elements of a document with
\* a snapshot and a differential are taken from the snapshot.
C20_SnapshotWhenBoth ==
    (out.ok /\ "snapshot" \in DOMAIN raw /\ "differential" \in DOMAIN raw)
    => Paths(out.elements) =
           Paths(Kept(out.by, ListUnder(raw, "snapshot")))


\* the cap on the sample paths kept for one type
SamplePathCap == 50

\* C21: for every type the list of paths kept under dataTypeUsage has at
\* most SamplePathCap paths, while frequency counts every element of the
\* type.
C21_SamplePathsCapped ==
    out.ok =>
        \A type \in DOMAIN out.value.dataTypeUsage :
            /\ Len(out.value.dataTypeUsage[type].elements) <= SamplePathCap
            /\ out.value.dataTypeUsage[type].frequency =
                   Len(SelectSeq(ElementsFhir(raw).data["Patient"].elements,
                                 LAMBDA e : e.type = type))
                   + IF raw.profile
                     THEN Len(SelectSeq(ElementsUs(raw).data["USCorePatient"].elements,
                                        LAMBDA e : e.type = type))
                     ELSE 0


\* the catalog names at the time a step is taken
CatalogNames == DOMAIN fhir_resources.data \cup DOMAIN us_core_profiles.data

\* how often a name occurs in a list
Occurrences(list, name) == Cardinality({i \in DOMAIN list : list[i] = name})

\* C22: generate_indexes writes, for every term of the curated table, the
\* names of the table followed by the USCore variants of these names that
\* are in the catalog, each variant once; and generating again over a
\* catalog with the same names leaves every term as it was.
C22_SearchTermsExpandOnce ==
    [][generate_indexes =>
          LET terms == elements_json'.value.searchTerms
          IN  /\ DOMAIN terms = DOMAIN term_mappings
              /\ \A term \in DOMAIN terms :
                     LET curated == term_mappings[term]
                         variants == {us_core_name(curated[i]) : i \in DOMAIN curated}
                     IN  /\ SubSeq(terms[term], 1, Len(curated)) = curated
                         /\ Range(terms[term]) =
                                Range(curated) \cup (variants \cap CatalogNames)
                         /\ \A name \in variants : Occurrences(terms[term], name) <= 1
              /\ (/\ elements_json.ok
                  /\ resources_json.ok
                  /\ DOMAIN resources_json.value.byName.data = CatalogNames)
                 => terms = elements_json.value.searchTerms]_vars

\* the indexes have been generated over a catalog with Patient and
\* USCorePatient: the terms of Patient have the profile once, those of
\* Observation nothing but Observation
C22_Witness ==
    /\ elements_json.ok
    /\ {"Patient", "USCorePatient"} \subseteq CatalogNames
    /\ elements_json.value.searchTerms["patient"] = <<"Patient", "USCorePatient">>
    /\ elements_json.value.searchTerms["demographics"] = <<"Patient", "USCorePatient">>
    /\ elements_json.value.searchTerms["lab"] = <<"Observation">>



\* C23: the resources of a field name in byName are a set: the name of an
\* entry is listed at most once under a field name, also when the entry has
\* the field name at several paths.
C23_ResourcesListedOnce ==
    out.ok =>
        \A field \in DOMAIN out.value.byName :
            \A name \in Range(out.value.byName[field].resources) :
                Occurrences(out.value.byName[field].resources, name) = 1



\* the names of the entry files on disk: resources, profiles and data types
PersistedNames ==
    DOMAIN fhir_files \cup DOMAIN us_core_files \cup DOMAIN datatype_files

\* C24: after a full regeneration byName lists exactly the names of the
\* persisted entry files: a regeneration that follows a merge of the data
\* types still lists the data types.
C24_RegenerationListsAllFiles ==
    [][generate_indexes =>
          DOMAIN resources_json'.value.byName.data = PersistedNames']_vars



\* the place of a name in an ordered list
Place(list, name) == CHOOSE i \in DOMAIN list : list[i] = name

\* the record of byName made from an entry file carries what the file embeds
CarriesEmbedded(record, file) ==
    /\ record.hash = [prefix |-> "sha256:", digest |-> file._metadata.hash]
    /\ record.elementCount = file._metadata.elementCount

\* C25: after update_indexes the record byName[name] of every data type file
\* carries the hash and the elementCount embedded in the file; a file whose
\* hash is the hash byName[name] already had leaves the record of that name
\* and its place in byName as they were, and a file with another hash or a
\* new name has its record written.
C25_MergeCarriesEmbeddedHash ==
    [][update_indexes =>
          LET before == resources_json.value.byName
              after == resources_json'.value.byName
          IN  \A name \in DOMAIN datatype_files :
                  /\ name \in DOMAIN after.data
                  /\ CarriesEmbedded(after.data[name], datatype_files[name])
                  /\ after.data[name].type = "datatype"
                  /\ (/\ name \in DOMAIN before.data
                      /\ before.data[name].hash = after.data[name].hash)
                     => /\ after.data[name] = before.data[name]
                        /\ Place(after.order, name) = Place(before.order, name)]_vars

\* a merged data type whose file has since been saved with other content:
\* the merge that follows replaces the record
C25_Witness ==
    /\ resources_json.ok
    /\ \E name \in DOMAIN datatype_files :
           /\ name \in DOMAIN resources_json.value.byName.data
           /\ resources_json.value.byName.data[name].type = "datatype"
           /\ ~CarriesEmbedded(resources_json.value.byName.data[name],
                               datatype_files[name])
    /\ \E name \in DOMAIN datatype_files :
           /\ name \in DOMAIN resources_json.value.byName.data
           /\ CarriesEmbedded(resources_json.value.byName.data[name],
                              datatype_files[name])



\* the lists of a mapping that have the same names before and after are the
\* same lists, in the same order
ListsKept(before, after) ==
    \A k \in DOMAIN before :
        (k \in DOMAIN after /\ Range(after[k]) = Range(before[k]))
            => after[k] = before[k]

\* C26: update_indexes leaves the record byName[name] of every name that is
\* not a data type file as it was, and leaves every list of bySpec and of
\* byType to which it adds no name with the names and the order it had.
C26_MergeTouchesOnlyNewEntries ==
    [][update_indexes =>
          LET before == resources_json.value
              after == resources_json'.value
          IN  /\ \A name \in DOMAIN before.byName.data \ DOMAIN datatype_files :
                     /\ name \in DOMAIN after.byName.data
                     /\ after.byName.data[name] = before.byName.data[name]
              /\ ListsKept(before.bySpec, after.bySpec)
              /\ ListsKept(before.byType, after.byType)]_vars



\* the sum of elementCount over the records of byName
ElementCountSum(byName) ==
    SumSeq([i \in DOMAIN byName.order |-> byName.data[byName.order[i]].elementCount])

\* C27: the statistics of resources.json agree with its mappings:
\* totalResources is the number of names of byName, totalElements is the sum
\* of elementCount over the records of byName, and the count of each family
\* is the length of its list in bySpec.
C27_StatisticsAgreeWithMappings ==
    resources_json.ok =>
        LET index == resources_json.value
        IN  /\ index.statistics.totalResources = DictLen(index.byName)
            /\ index.statistics.totalElements = ElementCountSum(index.byName)
            /\ index.statistics.fhirResources = Len(index.bySpec["fhir-r4"])
            /\ index.statistics.usCoreProfiles = Len(index.bySpec["us-core-stu6.1"])



\* C28: the download counters of a FHIRDataFetcher are the numbers of entries
\* it holds: fhir_resources_downloaded is the size of fhir_resources and
\* us_core_profiles_downloaded that of us_core_profiles, so that the
\* fhirResourcesDownloaded of master.json is its resourceCount.
C28_CountersAreCatalogSizes ==
    /\ stats.fhir_resources_downloaded = DictLen(fhir_resources)
    /\ stats.us_core_profiles_downloaded = DictLen(us_core_profiles)
    /\ master_json.ok =>
           /\ master_json.value.stats.fhirResourcesDownloaded
                  = master_json.value.specifications["fhir-r4"].resourceCount
           /\ master_json.value.stats.usCoreProfilesDownloaded
                  = master_json.value.specifications["us-core-stu6.1"].profileCount



\* a persisted data type file as loaded, with its _metadata removed
WithoutMetadata(file) == [k \in DOMAIN file \ {"_metadata"} |-> file[k]]

\* C29: the hash save_data_type embeds is that of the entry without its
\* _metadata: the hash computed from a written file with _metadata removed
\* is the hash the file embeds, and every save of one entry object embeds
\* the hash the first save embedded.
C29_EmbeddedHashIgnoresMetadata ==
    pc = "save" =>
        \A i \in DOMAIN out :
            /\ metadata_hash(DataTypeKeys, WithoutMetadata(out[i]))
                   = out[i]._metadata.hash
            /\ out[i]._metadata.hash = out[1]._metadata.hash



\* update_master_index has been called for the types the run downloaded
MasterHasDownloads ==
    /\ master_json.ok
    /\ Get(Get(master_json.value, "stats", EmptyMap), "dataTypesDownloaded", -1)
           = Cardinality(DOMAIN downloaded_types)

\* C30: a call of download_data_type that returns has put the name in
\* downloaded_types and saved its file, recording no error, or has recorded
\* one error and saved nothing; a run that is under way comes to its end,
\* and at its end update_master_index has been called if and only if a type
\* was downloaded.
C30_RunEndsAndUpdatesMaster ==
    /\ [][FetchDataType =>
             LET type_name == batch[pos]
                 result == Last(results')
             IN  /\ result = "saved" =>
                        /\ type_name \in DOMAIN downloaded_types'
                        /\ datatype_files'[type_name] = downloaded_types'[type_name]
                        /\ dt_errors' = dt_errors
                 /\ result = "failed" =>
                        /\ type_name \notin DOMAIN downloaded_types'
                        /\ datatype_files' = datatype_files
                        /\ dt_errors' = dt_errors + 1
                 /\ pc' # "dt_run" =>
                        (MasterHasDownloads' <=> downloaded_types' # EmptyMap)]_vars
    /\ (pc = "dt_run") ~> (pc # "dt_run")

=============================================================================
